---- MODULE Spec2Model ----
(***************************************************************************)
(* Model of the domain WHOIS / DNS lookup service (src/main.py, with the   *)
(* usage hook of src/auth.py).  Strings are sequences of one-character     *)
(* strings, so that the string functions of the code are computed rather   *)
(* than assumed.                                                           *)
(***************************************************************************)
EXTENDS Naturals, Integers, Sequences, FiniteSets, TLC

(***************************************************************************)
(* Python values and string primitives                                     *)
(***************************************************************************)

\* Python values that may be None or of several types carry their type:
\* None, a str (a sequence of characters), a list, a dict, a number, a datetime.
NoneV == [t |-> "none"]

Str(s) == [t |-> "str", v |-> s]

List(l) == [t |-> "list", v |-> l]

Dict(d) == [t |-> "dict", v |-> d]

Num(n) == [t |-> "num", v |-> n]

DateTime(s) == [t |-> "datetime", v |-> s]

\* Python's truth value of x (as in `if x:`, `x or y`, `not x`).
Truthy(x) ==
    CASE x.t = "none" -> FALSE
      [] x.t = "str" -> x.v # <<>>
      [] x.t = "list" -> x.v # <<>>
      [] x.t = "dict" -> DOMAIN x.v # {}
      [] x.t = "num" -> x.v # 0
      [] OTHER -> TRUE

\* d.get(k, default) on a dict value.
Get(d, k, default) == IF k \in DOMAIN d.v THEN d.v[k] ELSE default

\* p in s, for strings.
Contains(s, p) == \E i \in 0..(Len(s) - Len(p)) : SubSeq(s, i + 1, i + Len(p)) = p

\* str(x) of a value that is a str already, or None.
PyStr(x) == IF x.t = "none" THEN Str(<<"N","o","n","e">>) ELSE Str(x.v)

LowerLetters == {"a","b","c","d","e","f","g","h","i","j","k","l","m",
                 "n","o","p","q","r","s","t","u","v","w","x","y","z"}

UpperLetters == {"A","B","C","D","E","F","G","H","I","J","K","L","M",
                 "N","O","P","Q","R","S","T","U","V","W","X","Y","Z"}

Digits == {"0","1","2","3","4","5","6","7","8","9"}

Whitespace == {" ", "\t", "\n", "\r"}

LowerOf == [c \in UpperLetters |->
    CASE c = "A" -> "a" [] c = "B" -> "b" [] c = "C" -> "c" [] c = "D" -> "d"
      [] c = "E" -> "e" [] c = "F" -> "f" [] c = "G" -> "g" [] c = "H" -> "h"
      [] c = "I" -> "i" [] c = "J" -> "j" [] c = "K" -> "k" [] c = "L" -> "l"
      [] c = "M" -> "m" [] c = "N" -> "n" [] c = "O" -> "o" [] c = "P" -> "p"
      [] c = "Q" -> "q" [] c = "R" -> "r" [] c = "S" -> "s" [] c = "T" -> "t"
      [] c = "U" -> "u" [] c = "V" -> "v" [] c = "W" -> "w" [] c = "X" -> "x"
      [] c = "Y" -> "y" [] c = "Z" -> "z"]

UpperOf == [c \in LowerLetters |-> CHOOSE u \in UpperLetters : LowerOf[u] = c]

\* str.lower()
Lower(s) == [i \in 1..Len(s) |-> IF s[i] \in UpperLetters THEN LowerOf[s[i]] ELSE s[i]]

\* str.upper()
Upper(s) == [i \in 1..Len(s) |-> IF s[i] \in LowerLetters THEN UpperOf[s[i]] ELSE s[i]]

\* s.startswith(p)
StartsWith(s, p) == Len(s) >= Len(p) /\ SubSeq(s, 1, Len(p)) = p

\* s[n:]
Drop(s, n) == SubSeq(s, n + 1, Len(s))

\* Index of the first occurrence of character c in s, 0 when there is none.
IndexOf(s, c) ==
    IF \E i \in 1..Len(s) : s[i] = c
    THEN CHOOSE i \in 1..Len(s) : s[i] = c /\ \A j \in 1..(i - 1) : s[j] # c
    ELSE 0

\* s.split(c)[0]
BeforeFirst(s, c) == IF IndexOf(s, c) = 0 THEN s ELSE SubSeq(s, 1, IndexOf(s, c) - 1)

\* s.split(c): the list of the pieces between the occurrences of c.
RECURSIVE Split(_, _)
Split(s, c) ==
    IF IndexOf(s, c) = 0 THEN <<s>>
    ELSE <<SubSeq(s, 1, IndexOf(s, c) - 1)>> \o Split(Drop(s, IndexOf(s, c)), c)

\* s.strip()
RECURSIVE LStrip(_)
LStrip(s) == IF s # <<>> /\ Head(s) \in Whitespace THEN LStrip(Tail(s)) ELSE s

RECURSIVE RStrip(_)
RStrip(s) ==
    IF s # <<>> /\ s[Len(s)] \in Whitespace THEN RStrip(SubSeq(s, 1, Len(s) - 1)) ELSE s

Strip(s) == RStrip(LStrip(s))

\* '.'.join(parts)
RECURSIVE JoinDot(_)
JoinDot(parts) ==
    IF parts = <<>> THEN <<>>
    ELSE IF Len(parts) = 1 THEN parts[1]
    ELSE parts[1] \o <<".">> \o JoinDot(Tail(parts))

\* parts[-2:]
LastTwo(parts) == IF Len(parts) <= 2 THEN parts ELSE SubSeq(parts, Len(parts) - 1, Len(parts))

(***************************************************************************)
(* validate_domain                                                         *)
(***************************************************************************)

\* re.sub(r'^https?://', '', domain): the pattern is matched case-sensitively.
StripScheme(s) ==
    IF StartsWith(s, <<"h","t","t","p",":","/","/">>) THEN Drop(s, 7)
    ELSE IF StartsWith(s, <<"h","t","t","p","s",":","/","/">>) THEN Drop(s, 8)
    ELSE s

\* The cleaning steps of validate_domain, before the checks.
CleanDomain(s) == Strip(Lower(BeforeFirst(BeforeFirst(StripScheme(s), "/"), ":")))

\* A variant of the label pattern that lets a label start or end with a hyphen.
\* C11 must tell it from IsLabel.
IsLabelAnyHyphen(l) ==
    /\ l # <<>>
    /\ \A i \in 1..Len(l) : l[i] \in LowerLetters \cup Digits \cup {"-"}

\* [a-z0-9]([a-z0-9-]*[a-z0-9])?
IsLabel(l) ==
    /\ l # <<>>
    /\ \A i \in 1..Len(l) : l[i] \in LowerLetters \cup Digits \cup {"-"}
    /\ l[1] # "-"
    /\ l[Len(l)] # "-"

\* The least number of letters of the last label: [a-z]{2,}
MinTldLen == 2

\* [a-z]{2,}
IsTldLabel(l) == Len(l) >= MinTldLen /\ \A i \in 1..Len(l) : l[i] \in LowerLetters

\* The pattern of validate_domain: label(.label)*.tld
MatchesDomainPattern(s) ==
    LET labels == Split(s, ".")
    IN  /\ Len(labels) >= 2
        /\ \A i \in 1..(Len(labels) - 1) : IsLabel(labels[i])
        /\ IsTldLabel(labels[Len(labels)])

\* validate_domain raises ValueError on these inputs.
DomainRejected(s) == CleanDomain(s) = <<>> \/ ~MatchesDomainPattern(CleanDomain(s))

\* validate_domain's return value on the inputs it accepts.
validate_domain(s) == CleanDomain(s)

(***************************************************************************)
(* Authority registry: the entries of WHOIS_SERVERS and RDAP_SERVERS that  *)
(* the domains of this model reach (the tables hold several hundred        *)
(* entries of the same shape).                                              *)
(***************************************************************************)

WHOIS_SERVERS ==
    (<<"c","o","m">> :> <<"w","h","o","i","s",".","v","e","r","i","s","i","g","n","-","g","r","s",".","c","o","m">>)
    @@ (<<"u","k">> :> <<"w","h","o","i","s",".","n","i","c",".","u","k">>)
    @@ (<<"c","o",".","u","k">> :> <<"w","h","o","i","s",".","n","i","c",".","u","k">>)

RDAP_SERVERS ==
    (<<"d","e","v">> :> "https://rdap.nic.google/domain/")
    @@ (<<"c","o","m">> :> "https://rdap.verisign.com/com/v1/domain/")

\* The generic bootstrap base, always the last RDAP candidate.
RDAP_BOOTSTRAP == "https://rdap.org/domain/"

IANA_SERVER == <<"w","h","o","i","s",".","i","a","n","a",".","o","r","g">>

\* domain.split('.')[-1]
TldOf(domain) == LET parts == Split(domain, ".") IN parts[Len(parts)]

\* _get_whois_server: the two-label suffix first, then the TLD.
_get_whois_server(domain) ==
    LET parts == Split(domain, ".")
        second_level == JoinDot(LastTwo(parts))
    IN  IF Len(parts) >= 2 /\ second_level \in DOMAIN WHOIS_SERVERS
        THEN Str(WHOIS_SERVERS[second_level])
        ELSE IF TldOf(domain) \in DOMAIN WHOIS_SERVERS
             THEN Str(WHOIS_SERVERS[TldOf(domain)])
             ELSE NoneV

\* A variant of the candidate list with the bootstrap in front.
rdap_urls_bootstrap_first(domain) ==
    <<RDAP_BOOTSTRAP>> \o
    (IF Lower(TldOf(domain)) \in DOMAIN RDAP_SERVERS
     THEN <<RDAP_SERVERS[Lower(TldOf(domain))]>> ELSE <<>>)

\* The candidate list built by _query_rdap.
rdap_urls(domain) ==
    (IF Lower(TldOf(domain)) \in DOMAIN RDAP_SERVERS
     THEN <<RDAP_SERVERS[Lower(TldOf(domain))]>> ELSE <<>>)
    \o <<RDAP_BOOTSTRAP>>

(***************************************************************************)
(* WHOIS text parser: _parse_whois_raw                                     *)
(***************************************************************************)

\* The label patterns of _parse_whois_raw.  A pattern `a\s*(.+)` is [a, b = <<>>];
\* the pattern `Expir.*Date:\s*(.+)` is [a = "Expir", b = "Date:"].
Pat(a) == [a |-> a, b |-> <<>>]

registrar_patterns ==
    << Pat(<<"R","e","g","i","s","t","r","a","r",":">>), Pat(<<"S","p","o","n","s","o","r","i","n","g"," ","R","e","g","i","s","t","r","a","r",":">>), Pat(<<"r","e","g","i","s","t","r","a","r",":">>),
       Pat(<<"R","e","g","i","s","t","r","a","r"," ","N","a","m","e",":">>) >>

registrant_patterns ==
    << Pat(<<"R","e","g","i","s","t","r","a","n","t"," ","O","r","g","a","n","i","z","a","t","i","o","n",":">>), Pat(<<"R","e","g","i","s","t","r","a","n","t",":">>), Pat(<<"r","e","g","i","s","t","r","a","n","t",":">>),
       Pat(<<"R","e","g","i","s","t","r","a","n","t"," ","N","a","m","e",":">>), Pat(<<"o","r","g",":">>) >>

creation_date_patterns ==
    << Pat(<<"C","r","e","a","t","i","o","n"," ","D","a","t","e",":">>), Pat(<<"C","r","e","a","t","e","d"," ","D","a","t","e",":">>), Pat(<<"c","r","e","a","t","e","d",":">>),
       Pat(<<"R","e","g","i","s","t","r","a","t","i","o","n"," ","D","a","t","e",":">>), Pat(<<"D","o","m","a","i","n"," ","R","e","g","i","s","t","r","a","t","i","o","n"," ","D","a","t","e",":">>),
       Pat(<<"C","r","e","a","t","e","d"," ","O","n",":">>), Pat(<<"C","r","e","a","t","i","o","n"," ","d","a","t","e",":">>) >>

expiration_date_patterns ==
    << [a |-> <<"E","x","p","i","r">>, b |-> <<"D","a","t","e",":">>], Pat(<<"E","x","p","i","r","a","t","i","o","n"," ","D","a","t","e",":">>),
       Pat(<<"R","e","g","i","s","t","r","y"," ","E","x","p","i","r","y"," ","D","a","t","e",":">>), Pat(<<"e","x","p","i","r","e","s",":">>), Pat(<<"E","x","p","i","r","y"," ","D","a","t","e",":">>),
       Pat(<<"p","a","i","d","-","t","i","l","l",":">>) >>

updated_date_patterns ==
    << Pat(<<"U","p","d","a","t","e","d"," ","D","a","t","e",":">>), Pat(<<"L","a","s","t"," ","U","p","d","a","t","e","d",":">>), Pat(<<"m","o","d","i","f","i","e","d",":">>),
       Pat(<<"l","a","s","t","-","u","p","d","a","t","e",":">>), Pat(<<"L","a","s","t"," ","M","o","d","i","f","i","e","d",":">>) >>

name_server_patterns ==
    << Pat(<<"N","a","m","e"," ","S","e","r","v","e","r",":">>), Pat(<<"n","s","e","r","v","e","r",":">>), Pat(<<"n","a","m","e","s","e","r","v","e","r",":">>), Pat(<<"D","N","S",":">>) >>

status_patterns == << Pat(<<"D","o","m","a","i","n"," ","S","t","a","t","u","s",":">>), Pat(<<"S","t","a","t","u","s",":">>), Pat(<<"s","t","a","t","u","s",":">>) >>

\* The positions (0-based offsets) at which p occurs in s.
Occurrences(s, p) == {i \in 0..(Len(s) - Len(p)) : SubSeq(s, i + 1, i + Len(p)) = p}

SetMin(S) == CHOOSE x \in S : \A y \in S : x <= y

SetMax(S) == CHOOSE x \in S : \A y \in S : x >= y

\* re.search(pattern, line, re.IGNORECASE) on a stripped line: the offset at which
\* group 1 may start (after the label), or -1 when the pattern does not match.
\* `(.+)` needs a character after the label; `.*` is greedy, so the last "Date:".
MatchEnd(pat, line) ==
    LET low == Lower(line)
        as == {i \in Occurrences(low, Lower(pat.a)) : i + Len(pat.a) < Len(line)}
        bs(i) == {j \in Occurrences(low, Lower(pat.b)) :
                     j >= i + Len(pat.a) /\ j + Len(pat.b) < Len(line)}
    IN  IF pat.b = <<>>
        THEN IF as = {} THEN -1 ELSE SetMin(as) + Len(pat.a)
        ELSE IF \A i \in as : bs(i) = {} THEN -1
             ELSE SetMax(bs(SetMin({i \in as : bs(i) # {}}))) + Len(pat.b)

\* match.group(1).strip()
Group1(pat, line) == Strip(Drop(line, MatchEnd(pat, line)))

\* A variant of the inner loop in which a matching line fills the field also when
\* the field is filled already.
RECURSIVE FillFieldOverwrites(_, _, _)
FillFieldOverwrites(cur, patterns, line) ==
    IF patterns = <<>> THEN cur
    ELSE IF MatchEnd(Head(patterns), line) >= 0
         THEN Str(Group1(Head(patterns), line))
         ELSE FillFieldOverwrites(cur, Tail(patterns), line)

\* The inner loop over one field's patterns, for one line: the first pattern that
\* matches fills the field, unless the field is filled already.
RECURSIVE FillField(_, _, _)
FillField(cur, patterns, line) ==
    IF patterns = <<>> THEN cur
    ELSE IF MatchEnd(Head(patterns), line) >= 0 /\ ~Truthy(cur)
         THEN Str(Group1(Head(patterns), line))
         ELSE FillField(cur, Tail(patterns), line)

\* value not in list
InSeq(x, l) == \E i \in 1..Len(l) : l[i] = x

\* The loops over the name-server and the status patterns, for one line: every
\* matching pattern adds its value unless the list holds it already.
RECURSIVE AddValues(_, _, _, _)
AddValues(list, patterns, line, lower) ==
    IF patterns = <<>> THEN list
    ELSE LET pat == Head(patterns)
             raw == Group1(pat, line)
             val == IF lower THEN Lower(raw) ELSE raw
             next == IF MatchEnd(pat, line) >= 0 /\ val # <<>> /\ ~InSeq(Str(val), list)
                     THEN Append(list, Str(val)) ELSE list
         IN  AddValues(next, Tail(patterns), line, lower)

\* The loop over the lines of the text.
RECURSIVE ParseLines(_, _)
ParseLines(result, lines) ==
    IF lines = <<>> THEN result
    ELSE LET line == Strip(Head(lines))
         IN  IF line = <<>> \/ line[1] = "%" \/ line[1] = "#"
             THEN ParseLines(result, Tail(lines))
             ELSE ParseLines(
                    [result EXCEPT
                       !.registrar = FillField(@, registrar_patterns, line),
                       !.registrant = FillField(@, registrant_patterns, line),
                       !.creation_date = FillField(@, creation_date_patterns, line),
                       !.expiration_date = FillField(@, expiration_date_patterns, line),
                       !.updated_date = FillField(@, updated_date_patterns, line),
                       !.name_servers = AddValues(@, name_server_patterns, line, TRUE),
                       !.status = AddValues(@, status_patterns, line, FALSE)],
                    Tail(lines))

\* \w and [\w\.-]
WordChars == LowerLetters \cup UpperLetters \cup Digits \cup {"_"}

EmailChars == WordChars \cup {".", "-"}

\* The length of the longest prefix of s made of characters of class.
RunLen(s, class) ==
    IF \A i \in 1..Len(s) : s[i] \in class THEN Len(s)
    ELSE SetMin({i \in 1..Len(s) : s[i] \notin class}) - 1

\* The length of the longest suffix of s made of characters of class.
RunLenBack(s, class) ==
    IF \A i \in 1..Len(s) : s[i] \in class THEN Len(s)
    ELSE Len(s) - SetMax({i \in 1..Len(s) : s[i] \notin class})

\* The length of the match of [\w\.-]+\.\w+ at the start of s, 0 when there is none:
\* the greedy first part gives back characters up to the last dot that a word
\* character follows.
DomainPartLen(s) ==
    LET r == RunLen(s, EmailChars)
        dots == {k \in 2..(r - 1) : s[k] = "." /\ s[k + 1] \in WordChars}
    IN  IF dots = {} THEN 0
        ELSE SetMax(dots) + RunLen(Drop(s, SetMax(dots)), WordChars)

\* re.findall(r'[\w\.-]+@[\w\.-]+\.\w+', s): the matches from left to right.  A
\* match is the run of [\w\.-] before an @, the @ and the domain part after it;
\* the search goes on behind a match, or behind an @ without one.
RECURSIVE FindEmails(_)
FindEmails(s) ==
    IF IndexOf(s, "@") = 0 THEN <<>>
    ELSE LET at == IndexOf(s, "@")
             local == RunLenBack(SubSeq(s, 1, at - 1), EmailChars)
             dom == DomainPartLen(Drop(s, at))
         IN  IF local > 0 /\ dom > 0
             THEN <<SubSeq(s, at - local, at + dom)>> \o FindEmails(Drop(s, at + dom))
             ELSE FindEmails(Drop(s, at))

\* The most e-mail addresses a record keeps.
MaxEmails == 5

SeqToSet(l) == {l[i] : i \in 1..Len(l)}

\* list(set(emails))[:5]: a set has no defined order, so any sequence of the
\* distinct addresses, cut to five, is a possible result.
EmailOrders(raw_text) ==
    LET found == SeqToSet(FindEmails(raw_text))
        n == IF Cardinality(found) < MaxEmails THEN Cardinality(found) ELSE MaxEmails
    IN  {l \in [1..n -> found] : \A i, j \in 1..n : l[i] = l[j] => i = j}

\* list or None
ListOrNone(l) == IF l = <<>> THEN NoneV ELSE List(l)

\* _parse_whois_raw(raw_text, domain), with the order the set of e-mail addresses
\* happened to have.
_parse_whois_raw(raw_text, domain, emails) ==
    LET empty == [domain |-> domain, registrar |-> NoneV, registrant |-> NoneV,
                  creation_date |-> NoneV, expiration_date |-> NoneV,
                  updated_date |-> NoneV, name_servers |-> <<>>, status |-> <<>>,
                  emails |-> <<>>, raw_text |-> Str(raw_text)]
        parsed == ParseLines(empty, Split(raw_text, "\n"))
    IN  IF raw_text = <<>>
        THEN [empty EXCEPT !.name_servers = List(<<>>), !.status = List(<<>>),
                           !.emails = List(<<>>)]
        ELSE [parsed EXCEPT !.name_servers = ListOrNone(@), !.status = ListOrNone(@),
                            !.emails = ListOrNone([i \in 1..Len(emails) |-> Str(emails[i])])]

(***************************************************************************)
(* RDAP parser: _parse_rdap_response                                       *)
(***************************************************************************)

\* x in roles
HasRole(entity, role) == InSeq(Str(role), Get(entity, "roles", List(<<>>)).v)

\* vcard[1] when len(vcard) > 1, else no items.
VcardItems(entity) ==
    LET vcard == Get(entity, "vcardArray", List(<<>>))
    IN  IF Len(vcard.v) > 1 THEN vcard.v[2].v ELSE <<>>

\* The registrar's loop over the vCard items: the first `fn` item, then break.
RECURSIVE FirstFn(_, _)
FirstFn(cur, items) ==
    IF items = <<>> THEN cur
    ELSE IF Head(items).v[1] = Str(<<"f","n">>) THEN Head(items).v[4]
         ELSE FirstFn(cur, Tail(items))

\* The loop over publicIds: every IANA Registrar ID entry overwrites the registrar.
RECURSIVE RegistrarFromIds(_, _)
RegistrarFromIds(cur, ids) ==
    IF ids = <<>> THEN cur
    ELSE RegistrarFromIds(
           IF Get(Head(ids), "type", NoneV) = Str(<<"I","A","N","A"," ","R","e","g","i","s","t","r","a","r"," ","I","D">>)
           THEN Str(<<"R","e","g","i","s","t","r","a","r"," ","I","D",":"," ">> \o PyStr(Get(Head(ids), "identifier", NoneV)).v)
           ELSE cur,
           Tail(ids))

\* The registrant's loop over the vCard items: every `fn` item overwrites the
\* registrant and every `email` item is appended.
RECURSIVE RegistrantItems(_, _)
RegistrantItems(result, items) ==
    IF items = <<>> THEN result
    ELSE LET item == Head(items).v
             r1 == IF item[1] = Str(<<"f","n">>)
                   THEN [result EXCEPT !.registrant = item[4]] ELSE result
             r2 == IF item[1] = Str(<<"e","m","a","i","l">>)
                   THEN [r1 EXCEPT !.emails = Append(@, item[4])] ELSE r1
         IN  RegistrantItems(r2, Tail(items))

\* The loop over data['entities'].
RECURSIVE ParseEntities(_, _)
ParseEntities(result, entities) ==
    IF entities = <<>> THEN result
    ELSE LET entity == Head(entities)
             fn == FirstFn(result.registrar, VcardItems(entity))
             registrar == IF ~Truthy(fn)
                          THEN RegistrarFromIds(fn, Get(entity, "publicIds", List(<<>>)).v)
                          ELSE fn
             r1 == IF HasRole(entity, <<"r","e","g","i","s","t","r","a","r">>)
                   THEN [result EXCEPT !.registrar = registrar] ELSE result
             r2 == IF HasRole(entity, <<"r","e","g","i","s","t","r","a","n","t">>)
                   THEN RegistrantItems(r1, VcardItems(entity)) ELSE r1
         IN  ParseEntities(r2, Tail(entities))

\* The loop over data['events']: event.get('eventDate', '') is assigned to the
\* creation and the expiration date by every matching event, to the updated date
\* only while it is not set.
RECURSIVE ParseEvents(_, _)
ParseEvents(result, events) ==
    IF events = <<>> THEN result
    ELSE LET action == Get(Head(events), "eventAction", NoneV)
             date == Get(Head(events), "eventDate", Str(<<>>))
         IN  ParseEvents(
               IF action = Str(<<"r","e","g","i","s","t","r","a","t","i","o","n">>)
               THEN [result EXCEPT !.creation_date = date]
               ELSE IF action = Str(<<"e","x","p","i","r","a","t","i","o","n">>)
               THEN [result EXCEPT !.expiration_date = date]
               ELSE IF action = Str(<<"l","a","s","t"," ","c","h","a","n","g","e","d">>)
                       \/ action = Str(<<"l","a","s","t"," ","u","p","d","a","t","e"," ","o","f"," ","R","D","A","P"," ","d","a","t","a","b","a","s","e">>)
               THEN IF ~Truthy(result.updated_date)
                    THEN [result EXCEPT !.updated_date = date] ELSE result
               ELSE result,
               Tail(events))

\* The loop over data['nameservers'].
RECURSIVE ParseNameservers(_, _)
ParseNameservers(list, nameservers) ==
    IF nameservers = <<>> THEN list
    ELSE LET ns_name == Get(Head(nameservers), "ldhName", Str(<<>>))
         IN  ParseNameservers(
               IF Truthy(ns_name) THEN Append(list, Str(Lower(ns_name.v))) ELSE list,
               Tail(nameservers))

\* The exception the parser raises on a body it cannot walk, "none" when it
\* raises none: a body that is no JSON object has no .get (AttributeError), a
\* vCard item of a registrar or registrant shorter than the index used on it
\* raises IndexError.
RdapParseError(data) ==
    IF data.t # "dict" THEN "AttributeError"
    ELSE IF \E i \in 1..Len(Get(data, "entities", List(<<>>)).v) :
              LET entity == Get(data, "entities", List(<<>>)).v[i]
              IN  /\ HasRole(entity, <<"r","e","g","i","s","t","r","a","r">>) \/ HasRole(entity, <<"r","e","g","i","s","t","r","a","n","t">>)
                  /\ \E k \in 1..Len(VcardItems(entity)) :
                        \/ Len(VcardItems(entity)[k].v) < 1
                        \/ /\ VcardItems(entity)[k].v[1] \in {Str(<<"f","n">>), Str(<<"e","m","a","i","l">>)}
                           /\ Len(VcardItems(entity)[k].v) < 4
         THEN "IndexError"
         ELSE "none"

\* _parse_rdap_response(data, domain) on a body it can walk.
_parse_rdap_response(data, domain) ==
    LET empty == [domain |-> domain, registrar |-> NoneV, registrant |-> NoneV,
                  creation_date |-> NoneV, expiration_date |-> NoneV,
                  updated_date |-> NoneV, name_servers |-> <<>>, status |-> <<>>,
                  emails |-> <<>>, raw_text |-> [t |-> "str", json |-> data]]
        r1 == ParseEntities(empty, Get(data, "entities", List(<<>>)).v)
        r2 == ParseEvents(r1, Get(data, "events", List(<<>>)).v)
        ns == ParseNameservers(<<>>, Get(data, "nameservers", List(<<>>)).v)
        status == Get(data, "status", List(<<>>))
    IN  [r2 EXCEPT !.name_servers = ListOrNone(ns),
                   !.status = IF Truthy(status) THEN status ELSE NoneV,
                   !.emails = ListOrNone(@)]

(***************************************************************************)
(* The response model WhoisResponse and the helpers of the library tier    *)
(***************************************************************************)

\* Optional[str]
IsOptStr(x) == x.t \in {"none", "str"}

\* Optional[List[str]]
IsOptStrList(x) == x.t = "none" \/ (x.t = "list" /\ \A i \in 1..Len(x.v) : x.v[i].t = "str")

\* WhoisResponse(...) raises pydantic's ValidationError, a ValueError, unless every
\* field has its declared type.
WhoisResponseValid(r) ==
    /\ IsOptStr(r.registrar) /\ IsOptStr(r.registrant)
    /\ IsOptStr(r.creation_date) /\ IsOptStr(r.expiration_date) /\ IsOptStr(r.updated_date)
    /\ IsOptStrList(r.name_servers) /\ IsOptStrList(r.status)
    /\ IsOptStr(r.dnssec) /\ IsOptStrList(r.emails)
    /\ IsOptStr(r.country) /\ IsOptStr(r.raw_text)

\* WhoisResponse(domain=..., ...) built from a parser's dict: the fields the call
\* passes, the others at their default None.
WhoisResponse(domain, parsed, raw_text) ==
    [domain |-> domain, registrar |-> parsed.registrar, registrant |-> parsed.registrant,
     creation_date |-> parsed.creation_date, expiration_date |-> parsed.expiration_date,
     updated_date |-> parsed.updated_date, name_servers |-> parsed.name_servers,
     status |-> parsed.status, dnssec |-> NoneV, emails |-> parsed.emails,
     country |-> NoneV, raw_text |-> raw_text]

\* format_date
format_date(date_obj) ==
    LET first == IF date_obj.t = "list"
                 THEN (IF date_obj.v # <<>> THEN date_obj.v[1] ELSE NoneV)
                 ELSE date_obj
    IN  IF date_obj.t = "none" THEN NoneV
        ELSE IF first.t = "datetime" THEN Str(first.v)
        ELSE PyStr(first)

\* to_list
to_list(value) ==
    IF value.t = "none" THEN NoneV
    ELSE IF value.t = "str" THEN List(<<value>>)
    ELSE IF value.t = "list"
         THEN List([i \in 1..Len(value.v) |->
                      IF value.v[i].t = "str" THEN Str(Lower(value.v[i].v))
                      ELSE PyStr(value.v[i])])
    ELSE List(<<PyStr(value)>>)

\* The WhoisResponse of the library tier, from the library's result w.
LibraryResponse(domain, w) ==
    [domain |-> domain, registrar |-> w.registrar,
     registrant |-> IF Truthy(w.org) THEN w.org ELSE w.name,
     creation_date |-> format_date(w.creation_date),
     expiration_date |-> format_date(w.expiration_date),
     updated_date |-> format_date(w.updated_date),
     name_servers |-> to_list(w.name_servers), status |-> to_list(w.status),
     dnssec |-> w.dnssec, emails |-> to_list(w.emails), country |-> w.country,
     raw_text |-> w.text]

(***************************************************************************)
(* The tiers of _do_whois_query                                            *)
(***************************************************************************)

\* The least length a legacy response must exceed: len(raw_text) > 100.
MinTextLen == 100

\* The not-found indicators of the direct query (tier 2).
not_found_indicators ==
    << <<"n","o"," ","m","a","t","c","h">>, <<"n","o","t"," ","f","o","u","n","d">>, <<"n","o"," ","d","a","t","a"," ","f","o","u","n","d">>, <<"n","o"," ","e","n","t","r","i","e","s"," ","f","o","u","n","d">>,
       <<"d","o","m","a","i","n"," ","n","o","t"," ","f","o","u","n","d">>, <<"n","o"," ","i","n","f","o","r","m","a","t","i","o","n">>, <<"s","t","a","t","u","s",":"," ","f","r","e","e">> >>

\* The not-found indicators of the referred query (tier 3).
not_found_indicators_referred ==
    << <<"n","o"," ","m","a","t","c","h">>, <<"n","o","t"," ","f","o","u","n","d">>, <<"n","o"," ","d","a","t","a"," ","f","o","u","n","d">>, <<"n","o"," ","e","n","t","r","i","e","s"," ","f","o","u","n","d">> >>

\* any(indicator in lower_text for indicator in indicators)
is_not_found(raw_text, indicators) ==
    \E i \in 1..Len(indicators) : Contains(Lower(raw_text), indicators[i])

\* A variant of tier 2's test that takes a text of MinTextLen characters too.
DirectAcceptedFrom100(raw_text) ==
    /\ Truthy(raw_text)
    /\ Len(raw_text.v) >= MinTextLen
    /\ ~is_not_found(raw_text.v, not_found_indicators)

\* Tier 2: the response of the registry's server is used.
DirectAccepted(raw_text) ==
    /\ Truthy(raw_text)
    /\ Len(raw_text.v) > MinTextLen
    /\ ~is_not_found(raw_text.v, not_found_indicators)

\* Tier 3: the response of the referred server is used.
ReferredAccepted(raw_text) ==
    /\ Truthy(raw_text)
    /\ Len(raw_text.v) > MinTextLen
    /\ ~is_not_found(raw_text.v, not_found_indicators_referred)

\* re.search(r'whois:\s*(\S+)', iana_raw, re.IGNORECASE).group(1).strip(), None
\* when there is no match: \s* runs over line ends too.
Referral(iana_raw) ==
    LET label == <<"w","h","o","i","s",":">>
        rest(i) == LStrip(Drop(iana_raw, i + Len(label)))
        hits == {i \in Occurrences(Lower(iana_raw), label) : rest(i) # <<>>}
        first == rest(SetMin(hits))
    IN  IF hits = {} THEN NoneV
        ELSE Str(SubSeq(first, 1, RunLen(first, {first[k] : k \in 1..Len(first)} \ Whitespace)))

\* What _do_whois_query hands back: a (success, data, error) tuple from the return
\* statement of a tier (tier 0: the final return), or an exception.
Returned(success, data, error, tier) ==
    [kind |-> "return", success |-> success, data |-> data, error |-> error,
     tier |-> tier, exc |-> "none"]

Raised(exc) ==
    [kind |-> "raise", success |-> FALSE, data |-> NoneV, error |-> NoneV,
     tier |-> 0, exc |-> exc]

NotReturned ==
    [kind |-> "none", success |-> FALSE, data |-> NoneV, error |-> NoneV,
     tier |-> 0, exc |-> "none"]

\* The message of the final return: it names the domain.
WhoisUnavailable(domain) == [msg |-> "whois_unavailable", about |-> domain]

\* Tier 1, the try block around whois.whois(domain): the outcome is an exception of
\* the library or its result w; any exception, also one of WhoisResponse, passes.
LibraryAccepted(domain, o) ==
    /\ o.kind = "result"
    /\ o.w.domain_name.t # "none"
    /\ WhoisResponseValid(LibraryResponse(domain, o.w))

\* Tiers 2 and 3 after acceptance: parse the text and return the record.
TextResult(domain, raw_text, emails, tier) ==
    LET resp == WhoisResponse(domain, _parse_whois_raw(raw_text.v, domain, emails), raw_text)
    IN  IF WhoisResponseValid(resp) THEN Returned(TRUE, resp, NoneV, tier)
        ELSE Raised("ValidationError")

\* Tier 4 after _query_rdap returned rdap_data, and the final return.
RdapResult(domain, rdap_data) ==
    IF Truthy(rdap_data)
    THEN IF RdapParseError(rdap_data) # "none" THEN Raised(RdapParseError(rdap_data))
         ELSE LET parsed == _parse_rdap_response(rdap_data, domain)
                  resp == WhoisResponse(domain, parsed, parsed.raw_text)
              IN  IF WhoisResponseValid(resp) THEN Returned(TRUE, resp, NoneV, 4)
                  ELSE Raised("ValidationError")
    ELSE Returned(FALSE, NoneV, WhoisUnavailable(domain), 0)

(***************************************************************************)
(* DNS                                                                     *)
(***************************************************************************)

DNS_RECORD_TYPES ==
    << <<"A">>, <<"A","A","A","A">>, <<"C","N","A","M","E">>, <<"M","X">>, <<"N","S">>, <<"T","X","T">>, <<"S","O","A">>, <<"P","T","R">>, <<"S","R","V">>,
       <<"C","A","A">> >>

\* [t.strip().upper() for t in record_types_str.split(',')], or all the types.
TypesToQuery(record_types_str) ==
    IF Truthy(record_types_str)
    THEN LET parts == Split(record_types_str.v, ",")
         IN  [i \in 1..Len(parts) |-> Upper(Strip(parts[i]))]
    ELSE DNS_RECORD_TYPES

\* The positions of the requested types that are not supported.
Unsupported(types) == {i \in 1..Len(types) : ~InSeq(types[i], DNS_RECORD_TYPES)}

\* The value of a DNSRecord: MX, SOA and SRV are formatted from their fields, the
\* other types are str(rdata).  (The three SOA labels are Chinese words in the
\* code; they are written in ASCII here.)
RecordValue(record_type, rdata) ==
    IF record_type = <<"M","X">> THEN rdata.preference \o <<" ">> \o rdata.exchange
    ELSE IF record_type = <<"S","O","A">>
    THEN <<"N","S",":"," ">> \o rdata.mname \o <<","," ","m","a","i","l",":"," ">> \o rdata.rname
         \o <<","," ","s","e","r","i","a","l",":"," ">> \o rdata.serial
    ELSE IF record_type = <<"S","R","V">>
    THEN rdata.priority \o <<" ">> \o rdata.weight \o <<" ">> \o rdata.port \o <<" ">>
         \o rdata.target
    ELSE rdata.text

\* The DNSRecord entries of one answer, in the answer's order.
AnswerRecords(domain, record_type, answers) ==
    [i \in 1..Len(answers.rdatas) |->
        [type |-> record_type, name |-> domain,
         value |-> RecordValue(record_type, answers.rdatas[i]), ttl |-> answers.ttl]]

(***************************************************************************)
(* HTTP responses                                                          *)
(***************************************************************************)

\* APIResponse(success=True, data=data), sent with status 200.
ApiOk(data) == [status |-> 200, success |-> TRUE, data |-> data, detail |-> NoneV]

\* raise HTTPException(status_code=code, detail=detail)
HttpError(code, detail) == [status |-> code, success |-> FALSE, data |-> NoneV, detail |-> detail]

NoResponse == [status |-> 0, success |-> FALSE, data |-> NoneV, detail |-> NoneV]

\* str(e) of validate_domain's ValueError.
InvalidDomain(d) ==
    IF CleanDomain(d) = <<>> THEN [msg |-> "domain_empty", about |-> <<>>]
    ELSE [msg |-> "invalid_domain_format", about |-> CleanDomain(d)]

(***************************************************************************)
(* The environment: what the callers send and what the network answers     *)
(***************************************************************************)

\* The domains the callers send: registered for WHOIS and RDAP (com), under a
\* two-label suffix (co.uk), RDAP only (dev), in neither table (zz), with a scheme
\* and a path, and two that validate_domain rejects.
WhoisDomains == { <<"a",".","c","o","m">>, <<"a",".","c","o",".","u","k">>, <<"a",".","d","e","v">>, <<"h","t","t","p","s",":","/","/","B",".","z","z","/","p">>, <<>>, <<"-","b","a","d",".","c","o","m">> }

DnsDomains == { <<"a",".","c","o","m">>, <<"n","o","t"," ","a"," ","d","o","m","a","i","n">> }

LookupDomains == { <<"a",".","z","z">>, <<"-","b","a","d",".","c","o","m">> }

\* The record_types strings the callers of /api/dns send (None: not given).
RecordTypeStrings == { NoneV, Str(<<"M","X",",","A">>), Str(<<" ","a"," ",","," ","m","x">>), Str(<<"A",",","X","X">>), Str(<<"t","x","t">>) }

\* The record_type path segments the callers of /api/dns/{domain}/{record_type} send.
RecordTypeSegments == { <<"m","x">>, <<"A","N","Y">> }

\* A text of n characters that ends with body.
PadTo(body, n) == [i \in 1..(n - Len(body)) |-> "x"] \o body

\* What _query_whois_socket may return for a domain query: None (any failure), an
\* empty text, a record of 101 and of 100 characters, and negative answers.  The
\* record has a label without a value, the same name server twice in different
\* case, and the same address twice.
SocketTexts ==
    { NoneV, Str(<<>>),
      Str(PadTo(<<"\n","R","e","g","i","s","t","r","a","r",":"," ","A","\n","r","e","g","i","s","t","r","a","r",":"," ","B","\n","R","e","g","i","s","t","r","a","n","t",":","\n","N","a","m","e"," ","S","e","r","v","e","r",":"," ","N","1",".","X",".","c","c","\n","n","a","m","e"," ","s","e","r","v","e","r",":"," ","n","1",".","x",".","C","C","\n","m","a","i","l",":"," ","a","@","b",".","c","c"," ","a","@","b",".","c","c">>, 101)),
      Str(PadTo(<<"\n","R","e","g","i","s","t","r","a","r",":"," ","A">>, 100)),
      Str(PadTo(<<"\n","N","O"," ","M","A","T","C","H"," ","F","O","R"," ","D","O","M","A","I","N">>, 150)),
      Str(PadTo(<<"\n","S","t","a","t","u","s",":"," ","f","r","e","e">>, 150)) }

\* What _query_whois_socket may return for the TLD query to whois.iana.org.
IanaTexts ==
    { NoneV,
      Str(<<"d","o","m","a","i","n",":"," ","X","\n","s","t","a","t","u","s",":"," ","A","C","T","I","V","E">>),
      Str(<<"d","o","m","a","i","n",":"," ","U","K","\n","w","h","o","i","s",":"," ","w","h","o","i","s",".","n","i","c",".","u","k","\n","s","t","a","t","u","s",":"," ","A","C","T","I","V","E">>),
      Str(<<"d","o","m","a","i","n",":"," ","X","\n","w","h","o","i","s",":"," "," "," ","w","h","o","i","s",".","n","i","c",".","e","x","a","m","p","l","e","\n","s","t","a","t","u","s",":"," ","A","C","T","I","V","E">>),
      Str(<<"d","o","m","a","i","n",":"," ","X","\n","w","h","o","i","s",":","\n","s","t","a","t","u","s",":"," ","A","C","T","I","V","E">>) }

\* A result of the library, with the fields the tier reads.
LibraryEntry(domain_name, registrar) ==
    [domain_name |-> domain_name, registrar |-> registrar, org |-> NoneV,
     name |-> Str(<<"N">>), creation_date |-> List(<<DateTime(<<"2","0","2","0","-","0","1","-","0","1"," ","0","0",":","0","0",":","0","0">>)>>),
     expiration_date |-> NoneV, updated_date |-> Str(<<"2","0","2","1">>),
     name_servers |-> List(<<Str(<<"N","S","1",".","X",".","C","O","M">>)>>), status |-> Str(<<"o","k">>),
     dnssec |-> NoneV, emails |-> Str(<<"a","@","b",".","c","c">>), country |-> NoneV,
     text |-> Str(<<"r","a","w">>)]

\* An entry of the library with the same name server in upper and in lower case
\* and six addresses, one of them twice.
LibraryEntryRepeating ==
    [LibraryEntry(Str(<<"A",".","C","O","M">>), Str(<<"R">>)) EXCEPT
       !.name_servers = List(<<Str(<<"N","S","1",".","X",".","C","O","M">>), Str(<<"n","s","1",".","x",".","c","o","m">>)>>),
       !.emails = List(<<Str(<<"a","@","b",".","c","c">>), Str(<<"b","@","b",".","c","c">>), Str(<<"c","@","b",".","c","c">>),
                         Str(<<"d","@","b",".","c","c">>), Str(<<"e","@","b",".","c","c">>), Str(<<"a","@","b",".","c","c">>)>>)]

\* What whois.whois(domain) may do: raise, return an entry without domain_name,
\* a usable entry, an entry with repeated values, and an entry whose registrar is
\* a list (not a str).
LibraryOutcomes ==
    { [kind |-> "raise", w |-> NoneV],
      [kind |-> "result", w |-> LibraryEntryRepeating],
      [kind |-> "result", w |-> LibraryEntry(NoneV, NoneV)],
      [kind |-> "result", w |-> LibraryEntry(Str(<<"A",".","C","O","M">>), Str(<<"R">>))],
      [kind |-> "result", w |-> LibraryEntry(Str(<<"A",".","C","O","M">>), List(<<Str(<<"R">>)>>))] }

\* The ways one RDAP candidate fails: HTTP 404, another HTTP error, and any other
\* exception (timeout, connection error, a body that is no JSON).
RdapFailures == {"HTTPError404", "HTTPError", "Exception"}

\* A vCard item ["email", {}, "text", address].
EmailItem(address) == List(<<Str(<<"e","m","a","i","l">>), Dict(<<>>), Str(<<"t","e","x","t">>), Str(address)>>)

\* An RDAP object with a registration event without eventDate, the same name
\* server in upper and in lower case, and a registrant with six addresses, one of
\* them twice.
RdapBodyRepeating ==
    Dict([events |-> List(<< Dict([eventAction |-> Str(<<"r","e","g","i","s","t","r","a","t","i","o","n">>)]) >>),
          nameservers |-> List(<< Dict([ldhName |-> Str(<<"N","S","1",".","X",".","C","O","M">>)]),
                                  Dict([ldhName |-> Str(<<"n","s","1",".","x",".","c","o","m">>)]) >>),
          entities |-> List(<< Dict([roles |-> List(<< Str(<<"r","e","g","i","s","t","r","a","n","t">>) >>),
                                     vcardArray |-> List(<< Str(<<"v","c","a","r","d">>),
                                        List(<< EmailItem(<<"a","@","b",".","c","c">>), EmailItem(<<"b","@","b",".","c","c">>),
                                                EmailItem(<<"c","@","b",".","c","c">>), EmailItem(<<"d","@","b",".","c","c">>),
                                                EmailItem(<<"e","@","b",".","c","c">>), EmailItem(<<"a","@","b",".","c","c">>)
                                             >>) >>)]) >>)])

\* The JSON bodies an RDAP endpoint may send: an empty object, null, a usable
\* object, an object with a missing date and repeated values, an array, an object
\* whose status is a string, an object with a truncated vCard item.
RdapBodies ==
    { Dict(<<>>), NoneV, RdapBodyRepeating,
      Dict([events |-> List(<< Dict([eventAction |-> Str(<<"r","e","g","i","s","t","r","a","t","i","o","n">>),
                                     eventDate |-> Str(<<"2","0","2","0">>)]) >>),
            nameservers |-> List(<< Dict([ldhName |-> Str(<<"N","S","1",".","X",".","C","O","M">>)]) >>),
            status |-> List(<< Str(<<"a","c","t","i","v","e">>) >>)]),
      List(<< Num(1) >>),
      Dict([status |-> Str(<<"a","c","t","i","v","e">>)]),
      Dict([entities |-> List(<< Dict([roles |-> List(<< Str(<<"r","e","g","i","s","t","r","a","r">>) >>),
                                       vcardArray |-> List(<< Str(<<"v","c","a","r","d">>),
                                           List(<< List(<< Str(<<"f","n">>) >>) >>) >>)]) >>)]) }

\* An rdata of the resolver's answer, with the fields the formatting reads.
Rdata(n) ==
    [text |-> <<n>>, preference |-> <<"1","0">>, exchange |-> <<n>>, mname |-> <<n>>,
     rname |-> <<n>>, serial |-> <<n>>, priority |-> <<n>>, weight |-> <<n>>,
     port |-> <<n>>, target |-> <<n>>]

\* The answers the resolver may give for one type: one or two rdatas.
DnsAnswers ==
    { [ttl |-> 300, rdatas |-> <<Rdata("1")>>],
      [ttl |-> 60, rdatas |-> <<Rdata("2"), Rdata("1")>>] }

\* The ways resolver.resolve fails.
DnsFailures == {"NoAnswer", "NXDOMAIN", "NoNameservers", "Timeout"}

\* No rdatas: what a query that raised contributes.
NoAnswers == [rdatas |-> <<>>, ttl |-> 0]

\* The most records one call collects in this model.
MaxRecords == 3

(***************************************************************************)
(* State                                                                   *)
(***************************************************************************)

VARIABLES
    pc,             \* where the call is: idle, tier1 .. tier4, whois_done, dns_start,
                    \* dns_loop, dns_done, finally, done
    endpoint,       \* whois, dns, dns_type, lookup
    raw,            \* the domain path parameter as sent
    record_types,   \* the record_types argument of _do_dns_query
    domain,         \* the handler's variable `domain`
    status_code,    \* the handler's variable `status_code`
    net,            \* the network requests issued so far, in order
    real_server,    \* tier 3's real_server
    raw_text,       \* _do_whois_query's raw_text: the last response to a domain query
    iana_raw,       \* _do_whois_query's iana_raw: the response of whois.iana.org
    rdap_i,         \* the index of _query_rdap's loop over rdap_urls
    rdap_outcome,   \* what the last RDAP GET did: an exception's name or "body"
    rdap_data,      \* what _query_rdap handed back
    whois_ret,      \* what _do_whois_query handed back
    dns_domain,     \* _do_dns_query's variable `domain`
    types_to_query, \* _do_dns_query's list of types
    dns_i,          \* the index of _do_dns_query's loop over types_to_query
    records,        \* _do_dns_query's list `records`
    dns_ret,        \* what _do_dns_query handed back
    dns_outcome,    \* what the last resolver.resolve did: an exception's name or "answer"
    response,       \* what the caller receives
    usage_logs,     \* the rows of table usage_logs
    daily_usage,    \* the rows of table daily_usage (of this key, today)
    total_requests, \* the key's total_requests
    record_usage_calls, \* how many times record_usage was called
    sock_pc,        \* where a call of _query_whois_socket is
    sock_open,      \* whether the socket it created is open
    sock_sent,      \* the bytes it sent
    sock_response,  \* its variable `response`: the bytes received so far
    sock_ret,       \* what it handed back
    parse_input,    \* what a parser was called with: a text or an RDAP object
    parse_result,   \* what the parser handed back
    users,          \* the rows of table users, by id
    api_keys,       \* the rows of table api_keys, by id
    admin_response, \* the last request to the user-management routes and its answer
    key_calls,      \* the requests to create a key: where each is, and its current_user
    lookup_calls,   \* the lookup requests bearing a key: where each is, and its session
    daily_rows,     \* the rows of table daily_usage, by id
    log_rows,       \* the rows of table usage_logs the lookup requests wrote
    now,            \* the clock, in days
    admitted        \* how many requests require_api_key let through, by key and day

callVars == <<pc, endpoint, raw, record_types, domain, status_code, net, real_server,
          raw_text, iana_raw, rdap_i, rdap_outcome, rdap_data, whois_ret, dns_domain, types_to_query, dns_i, records, dns_ret, dns_outcome,
          response,
          usage_logs, daily_usage, total_requests, record_usage_calls>>

whoisVars == <<real_server, raw_text, iana_raw, rdap_i, rdap_outcome, rdap_data, whois_ret>>

dnsVars == <<dns_domain, types_to_query, dns_i, records, dns_ret, dns_outcome>>

dbVars == <<usage_logs, daily_usage, total_requests, record_usage_calls>>

sockVars == <<sock_pc, sock_open, sock_sent, sock_response, sock_ret>>

parseVars == <<parse_input, parse_result>>

acctVars == <<users, api_keys, admin_response, key_calls>>

usageVars == <<lookup_calls, daily_rows, log_rows, now, admitted>>

\* What the handlers of the four endpoints leave alone.
restVars == <<sockVars, parseVars, acctVars, usageVars>>

\* What a call of _query_whois_socket leaves alone.
sockRest == <<callVars, parseVars, acctVars, usageVars>>

\* What a call of a parser leaves alone.
parseRest == <<callVars, sockVars, acctVars, usageVars>>

\* What the account routes leave alone.
acctRest == <<callVars, sockVars, parseVars>>

\* What the user-management routes leave alone, but for table api_keys.
adminRest == <<key_calls, usageVars, acctRest>>

\* What the key routes leave alone, but for the tables.
keyRest == <<usageVars, acctRest>>

vars == <<callVars, restVars>>

\* The ids of table users: it has the default administrator and at most one user more.
UserIds == {1, 2}

\* settings.ADMIN_USERNAME
ADMIN_USERNAME == <<"a","d","m","i","n">>

\* settings.ADMIN_EMAIL (the host part left out)
ADMIN_EMAIL == <<"a","d","m","i","n","@">>

\* get_password_hash(password): the hash is kept as the password it was made of.
get_password_hash(password) == <<"hash", password>>

\* A row of table users.
User(username, email, hashed_password, is_active, is_admin) ==
    [username |-> username, email |-> email, hashed_password |-> hashed_password,
     is_active |-> is_active, is_admin |-> is_admin]

\* The row create_admin_user adds at start-up.
DefaultAdmin == User(ADMIN_USERNAME, ADMIN_EMAIL, get_password_hash(<<"a","d","m","i","n">>), TRUE, TRUE)

\* How many requests to create a key are in progress at once.
MaxKeyCalls == 2

KeyCalls == 1..MaxKeyCalls

\* The most rows table api_keys gets.
MaxKeys == 6

\* How many lookup requests are in progress at once.
MaxLookupCalls == 2

LookupCalls == 1..MaxLookupCalls

\* The last day of the clock.
MaxDay == 1

Days == 0..MaxDay

\* A lookup request that has not begun.
IdleLookup ==
    [pc |-> "idle", key |-> 0, api_key |-> NoneV, daily |-> NoneV, pending |-> NoneV,
     status |-> 0, exc |-> "none"]

\* A request to create a key that has not begun.
IdleKeyCall == [pc |-> "idle", user_id |-> 0, is_admin |-> FALSE]

\* No request to the user-management routes yet.
NoAdminResponse ==
    [op |-> "none", actor |-> 0, user_id |-> 0, is_active |-> NoneV, is_admin |-> NoneV,
     status |-> 0]

\* The state after start-up, before a call: the tables are empty but for the default
\* administrator.
Init ==
    /\ pc = "idle"
    /\ endpoint = "none"
    /\ raw = <<>>
    /\ record_types = NoneV
    /\ domain = <<>>
    /\ status_code = 200
    /\ net = <<>>
    /\ real_server = NoneV
    /\ raw_text = NoneV
    /\ iana_raw = NoneV
    /\ rdap_i = 1
    /\ rdap_outcome = "none"
    /\ rdap_data = NoneV
    /\ whois_ret = NotReturned
    /\ dns_domain = <<>>
    /\ types_to_query = <<>>
    /\ dns_i = 1
    /\ records = <<>>
    /\ dns_ret = NoResponse
    /\ dns_outcome = "none"
    /\ response = NoResponse
    /\ usage_logs = <<>>
    /\ daily_usage = <<>>
    /\ total_requests = 0
    /\ record_usage_calls = 0
    /\ sock_pc = "idle"
    /\ sock_open = FALSE
    /\ sock_sent = <<>>
    /\ sock_response = <<>>
    /\ sock_ret = NoneV
    /\ parse_input = NoneV
    /\ parse_result = NoneV
    /\ users = (1 :> DefaultAdmin)
    /\ api_keys = <<>>
    /\ admin_response = NoAdminResponse
    /\ key_calls = [c \in KeyCalls |-> IdleKeyCall]
    /\ lookup_calls = [c \in LookupCalls |-> IdleLookup]
    /\ daily_rows = <<>>
    /\ log_rows = <<>>
    /\ now = 0
    /\ admitted = [kd \in (1..MaxKeys) \X Days |-> 0]

\* A network request of the WHOIS tiers: the library's lookup, a WHOIS socket query
\* to a server, an RDAP GET to a base URL.
Request(kind, to, q) == [kind |-> kind, to |-> to, q |-> q, answers |-> NoAnswers]

\* A DNS query for a record type, with what the resolver answered (NoAnswers when
\* it raised).
DnsRequest(record_type, q, answers) ==
    [kind |-> "dns", to |-> record_type, q |-> q, answers |-> answers]

whois_server == _get_whois_server(domain)

(***************************************************************************)
(* The handlers up to their first network request                          *)
(***************************************************************************)

\* The entry of query_whois and of full_lookup: validate_domain comes first; a
\* ValueError is answered with 400.
EnterWhoisTiers(ep, d) ==
    /\ pc = "idle"
    /\ endpoint' = ep
    /\ raw' = d
    /\ IF DomainRejected(d)
       THEN /\ domain' = d
            /\ status_code' = 400
            /\ response' = HttpError(400, InvalidDomain(d))
            /\ pc' = "finally"
       ELSE /\ domain' = validate_domain(d)
            /\ pc' = "tier1"
            /\ UNCHANGED <<status_code, response>>
    /\ UNCHANGED <<record_types, net, whoisVars, dnsVars, dbVars, restVars>>

\* GET /api/whois/{domain}
query_whois == \E d \in WhoisDomains : EnterWhoisTiers("whois", d)

\* GET /api/lookup/{domain}
full_lookup == \E d \in LookupDomains : EnterWhoisTiers("lookup", d)

\* The entry of query_dns and of query_dns_type: _do_dns_query is called with the
\* domain as sent and the record types.
EnterDns(ep, d, types) ==
    /\ pc = "idle"
    /\ endpoint' = ep
    /\ raw' = d
    /\ domain' = d
    /\ record_types' = types
    /\ pc' = "dns_start"
    /\ UNCHANGED <<status_code, net, whoisVars, dnsVars, response, dbVars, restVars>>

\* GET /api/dns/{domain}?record_types=...
query_dns == \E d \in DnsDomains, types \in RecordTypeStrings : EnterDns("dns", d, types)

\* GET /api/dns/{domain}/{record_type}: record_type.upper() is passed.
query_dns_type ==
    \E d \in DnsDomains, t \in RecordTypeSegments : EnterDns("dns_type", d, Str(Upper(t)))

(***************************************************************************)
(* _do_whois_query, one action per network request                         *)
(***************************************************************************)

\* _do_whois_query ends: with a return statement or with an exception.  Its locals
\* raw_text and iana_raw end with it.
WhoisEnds(ret) ==
    /\ whois_ret' = ret
    /\ raw_text' = NoneV
    /\ iana_raw' = NoneV
    /\ pc' = "whois_done"

\* Tier 1: whois.whois(domain).
Tier1Library ==
    /\ pc = "tier1"
    /\ \E o \in LibraryOutcomes :
          /\ net' = Append(net, Request("library", <<>>, domain))
          /\ IF LibraryAccepted(domain, o)
             THEN WhoisEnds(Returned(TRUE, LibraryResponse(domain, o.w), NoneV, 1))
             ELSE pc' = "tier2" /\ UNCHANGED <<whois_ret, raw_text, iana_raw>>
    /\ UNCHANGED <<endpoint, raw, record_types, domain, status_code, real_server, rdap_i,
                   rdap_outcome, rdap_data, dnsVars, response, dbVars, restVars>>

\* A variant of tier 2 that does not return on acceptance: the record is kept and
\* tier 3 follows.  The tier order C1 states must tell it from Tier2Direct.
Tier2DirectGoesOn ==
    /\ pc = "tier2"
    /\ IF Truthy(whois_server)
       THEN \E text \in SocketTexts :
              /\ net' = Append(net, Request("socket", whois_server.v, domain))
              /\ raw_text' = text
              /\ IF DirectAccepted(text)
                 THEN \E emails \in EmailOrders(text.v) :
                         whois_ret' = TextResult(domain, text, emails, 2)
                 ELSE UNCHANGED whois_ret
       ELSE UNCHANGED <<net, whois_ret, raw_text>>
    /\ pc' = "tier3"
    /\ UNCHANGED <<endpoint, raw, record_types, domain, status_code, real_server, iana_raw,
                   rdap_i, rdap_outcome, rdap_data, dnsVars, response, dbVars, restVars>>

\* Tier 2: the socket query to the server of the registry, when there is one.
Tier2Direct ==
    /\ pc = "tier2"
    /\ IF Truthy(whois_server)
       THEN \E text \in SocketTexts :
              /\ net' = Append(net, Request("socket", whois_server.v, domain))
              /\ IF DirectAccepted(text)
                 THEN \E emails \in EmailOrders(text.v) :
                         WhoisEnds(TextResult(domain, text, emails, 2))
                 ELSE /\ raw_text' = text
                      /\ pc' = "tier3"
                      /\ UNCHANGED <<whois_ret, iana_raw>>
       ELSE pc' = "tier3" /\ UNCHANGED <<net, whois_ret, raw_text, iana_raw>>
    /\ UNCHANGED <<endpoint, raw, record_types, domain, status_code, real_server, rdap_i,
                   rdap_outcome, rdap_data, dnsVars, response, dbVars, restVars>>

\* Tier 3, first request: the TLD is sent to whois.iana.org; a referral to another
\* server than tier 2's leads to the second request.
Tier3Iana ==
    /\ pc = "tier3"
    /\ \E text \in IanaTexts :
          LET found == IF Truthy(text) THEN Referral(text.v) ELSE NoneV
          IN  /\ net' = Append(net, Request("socket", IANA_SERVER, TldOf(domain)))
              /\ iana_raw' = text
              /\ IF Truthy(found) /\ found # whois_server
                 THEN real_server' = found /\ pc' = "tier3_referred"
                 ELSE pc' = "tier4" /\ UNCHANGED real_server
    /\ UNCHANGED <<endpoint, raw, record_types, domain, status_code, raw_text, rdap_i,
                   rdap_outcome, rdap_data, whois_ret, dnsVars, response, dbVars, restVars>>

\* Tier 3, second request: the domain is sent to the referred server.
Tier3Referred ==
    /\ pc = "tier3_referred"
    /\ \E text \in SocketTexts :
          /\ net' = Append(net, Request("socket", real_server.v, domain))
          /\ IF ReferredAccepted(text)
             THEN \E emails \in EmailOrders(text.v) :
                     WhoisEnds(TextResult(domain, text, emails, 3))
             ELSE /\ raw_text' = text
                  /\ pc' = "tier4"
                  /\ UNCHANGED <<whois_ret, iana_raw>>
    /\ UNCHANGED <<endpoint, raw, record_types, domain, status_code, real_server, rdap_i,
                   rdap_outcome, rdap_data, dnsVars, response, dbVars, restVars>>

\* Tier 4: one pass of _query_rdap's loop, a GET to rdap_urls[rdap_i].  A failure
\* goes on to the next candidate; a body that parses as JSON is returned at once;
\* after the last candidate None is returned.  The rest of _do_whois_query follows.
Tier4Rdap ==
    /\ pc = "tier4"
    /\ net' = Append(net, Request("rdap", rdap_urls(domain)[rdap_i], domain))
    /\ \/ \E failure \in RdapFailures :
            /\ rdap_outcome' = failure
            /\ IF rdap_i < Len(rdap_urls(domain))
               THEN /\ rdap_i' = rdap_i + 1
                    /\ UNCHANGED <<pc, whois_ret, raw_text, iana_raw, rdap_data>>
               ELSE /\ rdap_data' = NoneV
                    /\ WhoisEnds(RdapResult(domain, NoneV))
                    /\ UNCHANGED rdap_i
       \/ \E data \in RdapBodies :
            /\ rdap_outcome' = "body"
            /\ rdap_data' = data
            /\ WhoisEnds(RdapResult(domain, data))
            /\ UNCHANGED rdap_i
    /\ UNCHANGED <<endpoint, raw, record_types, domain, status_code, real_server,
                   dnsVars, response, dbVars, restVars>>

\* query_whois after _do_whois_query: the record, 404 with the error, 400 on a
\* ValueError (pydantic's ValidationError is one), 500 on any other exception.
query_whois_result ==
    /\ pc = "whois_done"
    /\ endpoint = "whois"
    /\ IF whois_ret.kind = "return"
       THEN IF whois_ret.success
            THEN response' = ApiOk(whois_ret.data) /\ UNCHANGED status_code
            ELSE status_code' = 404 /\ response' = HttpError(404, whois_ret.error)
       ELSE IF whois_ret.exc = "ValidationError"
            THEN status_code' = 400
                 /\ response' = HttpError(400, [msg |-> "validation_error", about |-> domain])
            ELSE status_code' = 500
                 /\ response' = HttpError(500, [msg |-> "whois_failed", about |-> domain])
    /\ pc' = "finally"
    /\ UNCHANGED <<endpoint, raw, record_types, domain, net, whoisVars, dnsVars, dbVars, restVars>>

\* full_lookup after _do_whois_query: an exception ends the call with 400 or 500,
\* a returned tuple (success or not) leads to _do_dns_query(domain).
full_lookup_after_whois ==
    /\ pc = "whois_done"
    /\ endpoint = "lookup"
    /\ IF whois_ret.kind = "return"
       THEN pc' = "dns_start" /\ UNCHANGED <<status_code, response>>
       ELSE /\ pc' = "finally"
            /\ IF whois_ret.exc = "ValidationError"
               THEN status_code' = 400
                    /\ response' = HttpError(400, [msg |-> "validation_error", about |-> domain])
               ELSE status_code' = 500
                    /\ response' = HttpError(500, [msg |-> "lookup_failed", about |-> domain])
    /\ UNCHANGED <<endpoint, raw, record_types, domain, net, whoisVars, dnsVars, dbVars, restVars>>

(***************************************************************************)
(* _do_dns_query, one action per DNS query                                 *)
(***************************************************************************)

\* _do_dns_query ends: with an APIResponse or with an HTTPException.
DnsEnds(ret) ==
    /\ dns_ret' = ret
    /\ pc' = "dns_done"

\* Two variants of the except clauses: one in which no failure ends the call, one
\* in which NoNameservers ends it as NXDOMAIN does.  C5 must tell the first, C6 the
\* second from FailureAborts.
FailureAbortsNever(failure) == FALSE

FailureAbortsOnNoNameservers(failure) == failure \in {"NXDOMAIN", "NoNameservers"}

\* The except clauses around resolver.resolve: NXDOMAIN raises HTTPException(404),
\* NoAnswer, NoNameservers and any other exception go on to the next type.
FailureAborts(failure) == failure = "NXDOMAIN"

\* A variant of the entry that starts the loop of queries without checking the
\* domain or the requested types.  C9 must tell it from DnsStart.
DnsStartWithoutChecks ==
    /\ pc = "dns_start"
    /\ dns_domain' = CleanDomain(domain)
    /\ types_to_query' = TypesToQuery(record_types)
    /\ dns_i' = 1
    /\ records' = <<>>
    /\ pc' = "dns_loop"
    /\ UNCHANGED <<dns_ret, dns_outcome>>
    /\ UNCHANGED <<endpoint, raw, record_types, domain, status_code, net, whoisVars,
                   response, dbVars, restVars>>

\* The entry of _do_dns_query: validate_domain, then the requested types are
\* checked, and only then the loop of queries starts.
DnsStart ==
    /\ pc = "dns_start"
    /\ IF DomainRejected(domain)
       THEN DnsEnds(HttpError(400, InvalidDomain(domain)))
            /\ UNCHANGED <<dns_domain, types_to_query, dns_i, records, dns_outcome>>
       ELSE LET types == TypesToQuery(record_types)
            IN  IF Unsupported(types) # {}
                THEN /\ DnsEnds(HttpError(400, [msg |-> "unsupported_type",
                                               about |-> types[SetMin(Unsupported(types))]]))
                     /\ dns_domain' = validate_domain(domain)
                     /\ UNCHANGED <<types_to_query, dns_i, records, dns_outcome>>
                ELSE /\ dns_domain' = validate_domain(domain)
                     /\ types_to_query' = types
                     /\ dns_i' = 1
                     /\ records' = <<>>
                     /\ pc' = "dns_loop"
                     /\ UNCHANGED <<dns_ret, dns_outcome>>
    /\ UNCHANGED <<endpoint, raw, record_types, domain, status_code, net, whoisVars,
                   response, dbVars, restVars>>

\* A variant of the append that puts an answer's entries in front of the list.
\* The order C4 states must tell it from Extend.
ExtendAtFront(recs, new) == new \o recs

\* records.append(...) for every rdata of the answer.
Extend(recs, new) == recs \o new

\* The end of one pass of the loop over types_to_query, with the records so far:
\* the next type, or the response after the last one.
NextType(recs) ==
    /\ records' = recs
    /\ IF dns_i < Len(types_to_query)
       THEN dns_i' = dns_i + 1 /\ UNCHANGED <<pc, dns_ret>>
       ELSE DnsEnds(ApiOk([domain |-> dns_domain, records |-> recs, query_time |-> "now"]))
            /\ UNCHANGED dns_i

\* One pass of the loop: resolver.resolve(domain, record_type).
DnsResolve ==
    /\ pc = "dns_loop"
    /\ \/ \E failure \in DnsFailures :
            /\ dns_outcome' = failure
            /\ net' = Append(net, DnsRequest(types_to_query[dns_i], dns_domain, NoAnswers))
            /\ IF FailureAborts(failure)
               THEN DnsEnds(HttpError(404, [msg |-> "domain_not_exist",
                                           about |-> dns_domain]))
                    /\ UNCHANGED <<dns_i, records>>
               ELSE NextType(records)
       \/ \E answers \in DnsAnswers :
            /\ Len(records) + Len(answers.rdatas) <= MaxRecords
            /\ dns_outcome' = "answer"
            /\ net' = Append(net, DnsRequest(types_to_query[dns_i], dns_domain, answers))
            /\ NextType(Extend(records,
                                AnswerRecords(dns_domain, types_to_query[dns_i], answers)))
    /\ UNCHANGED <<endpoint, raw, record_types, domain, status_code, whoisVars,
                   dns_domain, types_to_query, response, dbVars, restVars>>

\* query_dns and query_dns_type after _do_dns_query: the response is passed on; an
\* exception (the HTTPException of 400 and 404 too) sets status_code to 500 and is
\* raised again.
query_dns_result ==
    /\ pc = "dns_done"
    /\ endpoint \in {"dns", "dns_type"}
    /\ response' = dns_ret
    /\ status_code' = IF dns_ret.status = 200 THEN status_code ELSE 500
    /\ pc' = "finally"
    /\ UNCHANGED <<endpoint, raw, record_types, domain, net, whoisVars, dnsVars, dbVars, restVars>>

\* The whois part of full_lookup's response_data.
LookupWhoisPart ==
    IF whois_ret.success THEN whois_ret.data
    ELSE [domain |-> domain, error |-> whois_ret.error]

\* full_lookup after _do_dns_query: the combined response; an HTTPException of
\* _do_dns_query is raised again as it is.
full_lookup_result ==
    /\ pc = "dns_done"
    /\ endpoint = "lookup"
    /\ IF dns_ret.status = 200
       THEN response' = ApiOk([dns |-> dns_ret.data, query_time |-> "now",
                               whois |-> LookupWhoisPart])
       ELSE response' = dns_ret
    /\ pc' = "finally"
    /\ UNCHANGED <<endpoint, raw, record_types, domain, status_code, net, whoisVars,
                   dnsVars, dbVars, restVars>>

(***************************************************************************)
(* The usage hook                                                          *)
(***************************************************************************)

\* The UsageLog row of the finally blocks.
UsageLog ==
    [endpoint |-> endpoint, domain |-> domain,
     query_type |-> IF endpoint \in {"dns", "dns_type"} THEN "dns" ELSE endpoint,
     status_code |-> status_code]

\* record_usage: today's DailyUsage row is incremented or created, the key's
\* total_requests incremented, and the session committed (with the UsageLog row
\* added to it before).
record_usage(log) ==
    /\ daily_usage' = IF daily_usage # <<>>
                      THEN <<[request_count |-> daily_usage[1].request_count + 1]>>
                      ELSE <<[request_count |-> 1]>>
    /\ total_requests' = total_requests + 1
    /\ usage_logs' = Append(usage_logs, log)
    /\ record_usage_calls' = record_usage_calls + 1

\* A variant of the finally block that records the usage of a successful call
\* only.  C10 must tell it from Finally.
FinallyOnSuccess ==
    /\ pc = "finally"
    /\ IF response.status = 200 THEN record_usage(UsageLog) ELSE UNCHANGED dbVars
    /\ pc' = "done"
    /\ UNCHANGED <<endpoint, raw, record_types, domain, status_code, net, whoisVars,
                   dnsVars, response, restVars>>

\* The finally block of the four handlers: db.add(log), record_usage(api_key, db);
\* then the response or the exception goes to the caller.
Finally ==
    /\ pc = "finally"
    /\ record_usage(UsageLog)
    /\ pc' = "done"
    /\ UNCHANGED <<endpoint, raw, record_types, domain, status_code, net, whoisVars,
                   dnsVars, response, restVars>>

Next ==
    \/ query_whois
    \/ query_dns
    \/ query_dns_type
    \/ full_lookup
    \/ Tier1Library
    \/ Tier2Direct
    \/ Tier3Iana
    \/ Tier3Referred
    \/ Tier4Rdap
    \/ query_whois_result
    \/ full_lookup_after_whois
    \/ DnsStart
    \/ DnsResolve
    \/ query_dns_result
    \/ full_lookup_result
    \/ Finally

Spec == Init /\ [][Next]_vars

(***************************************************************************)
(* validate_domain on its own: a call on an input, and a call on the       *)
(* output of the first (as full_lookup makes, whose domain is validated    *)
(* once more at the entry of _do_dns_query)                                *)
(***************************************************************************)

\* The longest input built from InputAlphabet.
MaxInputLen == 5

\* A lower-case and an upper-case letter, a hyphen, and the characters the cleaning
\* steps look for.
InputAlphabet == {"a", "B", "-", ".", "/", ":", " "}

\* Every spelling of s in upper and lower case.
RECURSIVE CaseSpellings(_)
CaseSpellings(s) ==
    IF s = <<>> THEN {<<>>}
    ELSE LET c == Head(s)
             heads == IF c \in LowerLetters THEN {c, UpperOf[c]} ELSE {c}
         IN  {<<h>> \o rest : h \in heads, rest \in CaseSpellings(Tail(s))}

\* The spellings of the two scheme prefixes.
SchemeSpellings == CaseSpellings(<<"h","t","t","p",":","/","/">>) \cup CaseSpellings(<<"h","t","t","p","s",":","/","/">>)

\* Domains to put behind a scheme prefix: plain, with upper case, with a path.
SchemeDomains == { <<"a",".","b","c">>, <<"E","x","-","1",".","C","o",".","U","K">>, <<"a",".","c","o","m","/","p">>, <<"-","b","a","d",".","c","o","m">> }

\* The inputs of validate_domain: every string of at most MaxInputLen characters
\* of InputAlphabet, the three inputs called invalid, and the scheme spellings in
\* front of a domain.
ValidateInputs ==
    UNION {[1..n -> InputAlphabet] : n \in 0..MaxInputLen}
    \cup { <<>>, <<"n","o","t"," ","a"," ","d","o","m","a","i","n">>, <<"-","b","a","d",".","c","o","m">>, <<"e","x","a","m","p","l","e",".","c","o","m">> }
    \cup {scheme \o d : scheme \in SchemeSpellings, d \in SchemeDomains}

\* validate_domain(domain) on an input: the ValueError is answered with 400.
ValidateInput ==
    /\ pc = "idle"
    /\ \E x \in ValidateInputs :
          /\ raw' = x
          /\ IF DomainRejected(x)
             THEN /\ response' = HttpError(400, InvalidDomain(x))
                  /\ pc' = "rejected"
                  /\ UNCHANGED domain
             ELSE /\ domain' = validate_domain(x)
                  /\ pc' = "validated"
                  /\ UNCHANGED response
    /\ UNCHANGED <<endpoint, record_types, status_code, net, whoisVars, dnsVars, dbVars, restVars>>

\* validate_domain(domain) on the output of the first call.
ValidateOutput ==
    /\ pc = "validated"
    /\ IF DomainRejected(domain)
       THEN /\ response' = HttpError(400, InvalidDomain(domain))
            /\ pc' = "rejected_again"
            /\ UNCHANGED dns_domain
       ELSE /\ dns_domain' = validate_domain(domain)
            /\ pc' = "validated_again"
            /\ UNCHANGED response
    /\ UNCHANGED <<endpoint, raw, record_types, domain, status_code, net, whoisVars,
                   types_to_query, dns_i, records, dns_ret, dns_outcome, dbVars, restVars>>

NextValidate ==
    \/ ValidateInput
    \/ ValidateOutput

SpecValidate == Init /\ [][NextValidate]_vars

(***************************************************************************)
(* WHOIS resolution: the order of the tiers and the ways it ends           *)
(***************************************************************************)

\* The requests of the WHOIS tiers among the requests issued so far.
WhoisRequests == SelectSeq(net, LAMBDA r : r.kind # "dns")

\* The tier a request of WhoisRequests belongs to: the library's lookup is tier 1,
\* the socket query to the registry's server tier 2, the socket queries to IANA and
\* to the server it referred to tier 3, the RDAP GETs tier 4.
TierOfRequest(r) ==
    IF r.kind = "library" THEN 1
    ELSE IF r.kind = "rdap" THEN 4
    ELSE IF r.to = IANA_SERVER /\ r.q = TldOf(domain) THEN 3
    ELSE IF Truthy(real_server) /\ r.to = real_server.v THEN 3
    ELSE 2

\* The record is one that tier t builds from a response it accepts.
RecordOfTier(t, data) ==
    CASE t = 1 -> \E o \in LibraryOutcomes :
                     LibraryAccepted(domain, o) /\ data = LibraryResponse(domain, o.w)
      [] t = 2 -> /\ DirectAccepted(data.raw_text)
                  /\ \E emails \in EmailOrders(data.raw_text.v) :
                        data = TextResult(domain, data.raw_text, emails, 2).data
      [] t = 3 -> /\ ReferredAccepted(data.raw_text)
                  /\ \E emails \in EmailOrders(data.raw_text.v) :
                        data = TextResult(domain, data.raw_text, emails, 3).data
      [] t = 4 -> \E body \in {b \in RdapBodies : Truthy(b)} :
                     /\ RdapResult(domain, body).kind = "return"
                     /\ data = RdapResult(domain, body).data
      [] OTHER -> FALSE

\* C1: the requests of a WHOIS resolution follow the fixed order of the tiers
\* (library, then the registry's server when there is one, then IANA and the server
\* it refers to, then RDAP), no tier is left out before a later one is tried, and
\* once a tier accepted its response the record returned is that tier's and the
\* request of that tier stays the last one: no later tier queries the network.
C1_TiersInFixedOrder ==
    LET w == WhoisRequests
        tier(i) == TierOfRequest(w[i])
    IN  /\ \A i, j \in 1..Len(w) : i < j => tier(i) <= tier(j)
        /\ \A i, j \in 1..Len(w) : (i < j /\ tier(i) = tier(j)) => tier(i) \in {3, 4}
        /\ \A i \in 1..Len(w) :
              /\ tier(i) > 1 => \E j \in 1..(i - 1) : tier(j) = 1
              /\ tier(i) = 2 => Truthy(whois_server) /\ w[i].to = whois_server.v
              /\ (tier(i) > 2 /\ Truthy(whois_server)) => \E j \in 1..(i - 1) : tier(j) = 2
              /\ tier(i) = 4 => \E j \in 1..(i - 1) : tier(j) = 3
        /\ (whois_ret.kind = "return" /\ whois_ret.success) =>
              /\ w # <<>>
              /\ tier(Len(w)) = whois_ret.tier
              /\ pc = "whois_done" => RecordOfTier(whois_ret.tier, whois_ret.data)

\* C1's case: the library and the registry's server gave nothing, the server IANA
\* referred to was accepted, and the call is over.
C1_Witness ==
    /\ pc = "done"
    /\ endpoint = "whois"
    /\ Truthy(whois_server)
    /\ whois_ret.kind = "return" /\ whois_ret.success /\ whois_ret.tier = 3

\* The resolution returned its final failure: no tier was accepted.
WhoisFailed == whois_ret.kind = "return" /\ ~whois_ret.success

\* C2: a WHOIS query ends with 404 and the message naming the domain exactly when
\* the resolution returned its failure, and the resolution returns its failure only
\* after a GET to the universal bootstrap https://rdap.org/domain/<domain>.
C2_FailsOnlyAfterBootstrap ==
    /\ (endpoint = "whois" /\ pc \in {"finally", "done"}) =>
          /\ response.status = 404 <=> WhoisFailed
          /\ WhoisFailed => response.detail = WhoisUnavailable(domain)
    /\ WhoisFailed =>
          \E i \in 1..Len(net) :
             net[i].kind = "rdap" /\ net[i].to = RDAP_BOOTSTRAP /\ net[i].q = domain

\* C2's case: the resolution failed and the bootstrap was never asked.
C2_FailedWithoutBootstrap ==
    /\ pc = "done"
    /\ endpoint = "whois"
    /\ response.status = 404
    /\ \A i \in 1..Len(net) : net[i].kind = "rdap" => net[i].to # RDAP_BOOTSTRAP

\* C3: an exception while a tier parses its response or builds the record only
\* makes that tier yield no result: _do_whois_query always ends with a return
\* statement, and a WHOIS query with a valid domain ends with 200 or 404.
C3_ParseErrorsAreNoResult ==
    /\ whois_ret.kind # "raise"
    /\ (endpoint = "whois" /\ pc \in {"finally", "done"} /\ ~DomainRejected(raw)) =>
          response.status \in {200, 404}

\* C3's case: parsing the RDAP body raised and the WHOIS query ended with 500.
C3_ParseErrorEscaped ==
    /\ pc = "done"
    /\ endpoint = "whois"
    /\ whois_ret.kind = "raise"
    /\ response.status = 500

(***************************************************************************)
(* DNS resolution: the order of the entries and the resolver's failures    *)
(***************************************************************************)

\* The DNS queries among the requests issued so far.
DnsRequests == SelectSeq(net, LAMBDA r : r.kind = "dns")

\* The entries the answers of a sequence of DNS queries make, query after query.
RECURSIVE EntriesOf(_)
EntriesOf(q) ==
    IF q = <<>> THEN <<>>
    ELSE AnswerRecords(dns_domain, Head(q).to, Head(q).answers) \o EntriesOf(Tail(q))

\* The position of a record type in DNS_RECORD_TYPES.
TypeIndex(t) == CHOOSE k \in 1..Len(DNS_RECORD_TYPES) : DNS_RECORD_TYPES[k] = t

\* The entries of one type are the answers to the queries for that type, in the
\* resolver's order.
SameTypeInAnswerOrder ==
    \A k \in 1..Len(DNS_RECORD_TYPES) :
       SelectSeq(records, LAMBDA r : r.type = DNS_RECORD_TYPES[k])
         = EntriesOf(SelectSeq(DnsRequests, LAMBDA r : r.to = DNS_RECORD_TYPES[k]))

\* The records a successful DNS response carries are the list `records`.
ResponseCarriesRecords ==
    (endpoint \in {"dns", "dns_type"} /\ pc \in {"finally", "done"}
       /\ response.status = 200) => response.data.records = records

\* C4 as stated: the entries always follow the fixed type order A, AAAA, CNAME, MX,
\* NS, TXT, SOA, PTR, SRV, CAA whatever order the caller listed the types in, and
\* the entries of one type keep the resolver's answer order.
C4_FixedTypeOrder ==
    /\ \A i, j \in 1..Len(records) :
          i < j => TypeIndex(records[i].type) <= TypeIndex(records[j].type)
    /\ SameTypeInAnswerOrder
    /\ ResponseCarriesRecords

\* C4 amended: the types are queried in the order the caller listed them (the
\* fixed order A .. CAA when no list is given), and the entries are the answers in
\* the order of the queries, each answer's entries in the resolver's order.
C4_CallerTypeOrder ==
    /\ pc \in {"dns_loop", "dns_done", "finally", "done"} =>
          /\ Len(DnsRequests) <= Len(TypesToQuery(record_types))
          /\ \A i \in 1..Len(DnsRequests) :
                DnsRequests[i].to = TypesToQuery(record_types)[i]
          /\ ~Truthy(record_types) =>
                \A i \in 1..Len(DnsRequests) : DnsRequests[i].to = DNS_RECORD_TYPES[i]
    /\ records = EntriesOf(DnsRequests)
    /\ ResponseCarriesRecords

\* C4's case: the caller listed MX before A, both resolved, and the response
\* carries the MX entry before the A entry.
C4_Witness ==
    /\ pc = "done"
    /\ endpoint = "dns"
    /\ record_types = Str(<<"M","X",",","A">>)
    /\ response.status = 200
    /\ Len(response.data.records) >= 2
    /\ response.data.records[1].type = <<"M","X">>
    /\ response.data.records[Len(response.data.records)].type = <<"A">>

\* The DNS query hands back HTTP 404 and no record list.
DnsNotFound ==
    /\ dns_ret.status = 404
    /\ ~dns_ret.success
    /\ dns_ret.data = NoneV
    /\ dns_ret.detail = [msg |-> "domain_not_exist", about |-> dns_domain]

\* C5: when the resolver reports NXDOMAIN for a type, the DNS query ends at once
\* with 404: that query stays the last one, whatever types were still to come, and
\* the entries collected from earlier types are not returned.
C5_NxdomainAborts ==
    dns_outcome = "NXDOMAIN" =>
       /\ pc \in {"dns_done", "finally", "done"}
       /\ DnsNotFound
       /\ Len(DnsRequests) = dns_i
       /\ DnsRequests[dns_i].to = types_to_query[dns_i]
       /\ pc \in {"finally", "done"} => (response = dns_ret /\ response.status = 404)

\* C5's case: earlier types had resolved, later types were still to be queried,
\* and NXDOMAIN ended the call.
C5_Witness ==
    /\ pc = "done"
    /\ dns_outcome = "NXDOMAIN"
    /\ records # <<>>
    /\ dns_i < Len(types_to_query)

\* The failures of a single type that are skipped.
SkippedFailures == {"NoAnswer", "NoNameservers", "Timeout"}

\* C6: when the resolver reports no answer, no reachable name server or any other
\* error for a type, the loop goes on to the next type or, after the last type,
\* the call succeeds; a successful call has queried every type and carries exactly
\* the answers of the types that resolved.
C6_FailuresAreSkipped ==
    /\ dns_outcome \in SkippedFailures =>
          /\ pc \in {"dns_loop", "dns_done", "finally", "done"}
          /\ pc = "dns_loop" => Len(DnsRequests) = dns_i - 1
          /\ pc # "dns_loop" => dns_ret.status = 200
    /\ (pc \in {"dns_done", "finally", "done"} /\ dns_ret.status = 200) =>
          /\ Len(DnsRequests) = Len(types_to_query)
          /\ dns_ret.success
          /\ dns_ret.data.records = EntriesOf(DnsRequests)
          /\ endpoint \in {"dns", "dns_type"} /\ pc # "dns_done" => response = dns_ret

\* C6's case: the last type had no reachable name server, an earlier type had
\* resolved, and the call succeeded with the entries of that type.
C6_Witness ==
    /\ pc = "done"
    /\ endpoint = "dns"
    /\ dns_outcome = "NoNameservers"
    /\ response.status = 200
    /\ response.data.records # <<>>

(***************************************************************************)
(* The aggregate lookup                                                    *)
(***************************************************************************)

\* C7: a lookup whose WHOIS resolution accepted no tier and whose DNS query
\* succeeded answers 200 with whois = {domain, error}; and a lookup that fails was
\* failed by the domain check or by the DNS query, never by the WHOIS part.
C7_WhoisFailureKeepsLookup ==
    (endpoint = "lookup" /\ pc \in {"finally", "done"}) =>
       /\ (~(whois_ret.kind = "return" /\ whois_ret.success) /\ dns_ret.status = 200) =>
             /\ response.status = 200
             /\ response.success
             /\ response.data.whois = [domain |-> domain, error |-> WhoisUnavailable(domain)]
             /\ response.data.dns = dns_ret.data
       /\ response.status # 200 =>
             \/ DomainRejected(raw)
             \/ dns_ret.status = 404 /\ response = dns_ret

\* C7's case: the WHOIS part raised, no DNS query was made, and the lookup failed.
C7_WhoisFailedLookup ==
    /\ pc = "done"
    /\ endpoint = "lookup"
    /\ whois_ret.kind = "raise"
    /\ DnsRequests = <<>>
    /\ response.status = 500

\* C8: a lookup fails only with 400 for a domain validate_domain rejects or with
\* 404 for a domain the resolver reports as nonexistent (this one also when the
\* WHOIS part succeeded).
C8_LookupFailsTwoWays ==
    (endpoint = "lookup" /\ pc \in {"finally", "done"}) =>
       /\ ~response.success =>
             \/ /\ response.status = 400
                /\ DomainRejected(raw)
                /\ response.detail = InvalidDomain(raw)
             \/ /\ response.status = 404
                /\ dns_outcome = "NXDOMAIN"
                /\ response.detail = [msg |-> "domain_not_exist", about |-> domain]
       /\ dns_outcome = "NXDOMAIN" => response.status = 404

\* C8's case: a lookup that ended with a status other than 200, 400 and 404.
C8_LookupFailedOtherwise ==
    /\ pc = "done"
    /\ endpoint = "lookup"
    /\ ~DomainRejected(raw)
    /\ response.status \notin {200, 404}

(***************************************************************************)
(* Checks before the network, and the usage hook                           *)
(***************************************************************************)

\* C9: a domain that validate_domain rejects, and for the DNS queries a requested
\* type that is not supported, end the call with 400 with no network request made.
C9_RejectedBeforeNetwork ==
    /\ (pc # "idle" /\ DomainRejected(raw)) =>
          /\ net = <<>>
          /\ pc \in {"finally", "done"} =>
                (response.status = 400 /\ response.detail = InvalidDomain(raw))
    /\ (endpoint \in {"dns", "dns_type"} /\ ~DomainRejected(raw)
          /\ Unsupported(TypesToQuery(record_types)) # {}) =>
          /\ net = <<>>
          /\ pc \in {"finally", "done"} =>
                (response.status = 400 /\ response.detail.msg = "unsupported_type")

\* C9's case: the caller listed a supported type before an unsupported one and the
\* call ended with 400.
C9_Witness ==
    /\ pc = "done"
    /\ endpoint = "dns"
    /\ ~DomainRejected(raw)
    /\ Unsupported(TypesToQuery(record_types)) # {}
    /\ 1 \notin Unsupported(TypesToQuery(record_types))
    /\ response.status = 400

C11_ValidateIdempotent ==
    /\ pc # "rejected_again"
    /\ pc = "validated_again" => dns_domain = domain
    /\ pc = "validated" => (~DomainRejected(domain) /\ validate_domain(domain) = domain)
    /\ (pc # "idle" /\ raw \in { <<>>, <<"n","o","t"," ","a"," ","d","o","m","a","i","n">>, <<"-","b","a","d",".","c","o","m">> }) => pc = "rejected"

\* C11's case: an input with upper case and a path was accepted, cleaned, and its
\* output validated once more.
C11_Witness ==
    /\ pc = "validated_again"
    /\ raw = <<"B",".","a","a","/">>
    /\ domain = <<"b",".","a","a">>

\* C12: a scheme prefix http:// or https:// in any spelling of upper and lower
\* case in front of a domain that validate_domain accepts is stripped: the input is
\* accepted and the output is the output for the domain alone.
C12_SchemeAnyCase ==
    \A scheme \in SchemeSpellings :
       (pc # "idle" /\ StartsWith(raw, scheme)
          /\ ~DomainRejected(Drop(raw, Len(scheme)))) =>
          /\ pc # "rejected"
          /\ domain = validate_domain(Drop(raw, Len(scheme)))

\* C12's case: a valid domain behind a scheme spelled in upper case was rejected.
C12_UpperCaseSchemeRejected ==
    /\ pc = "rejected"
    /\ \E scheme \in SchemeSpellings :
          /\ StartsWith(raw, scheme)
          /\ scheme # Lower(scheme)
          /\ ~DomainRejected(Drop(raw, Len(scheme)))

(***************************************************************************)
(* The fields of the record a resolution returns                           *)
(***************************************************************************)

\* _do_whois_query returned a record.
WhoisSucceeded == whois_ret.kind = "return" /\ whois_ret.success

\* The optional fields of a WhoisResponse that hold one string.
StringFields ==
    {"registrar", "registrant", "creation_date", "expiration_date", "updated_date",
     "dnssec", "country"}

\* C13: no optional string field of a returned record is the empty string,
\* whichever tier built the record: what is absent upstream is None.
C13_NoEmptyStrings ==
    WhoisSucceeded =>
       \A f \in StringFields :
          whois_ret.data[f].t = "str" => whois_ret.data[f].v # <<>>

\* C13's case: the RDAP tier returned a record whose creation_date is "".
C13_EmptyCreationDate ==
    /\ pc = "done"
    /\ endpoint = "whois"
    /\ WhoisSucceeded
    /\ whois_ret.tier = 4
    /\ whois_ret.data.creation_date = Str(<<>>)
    /\ response.status = 200

\* No value occurs twice in the list.
NoRepeats(l) == \A i, j \in 1..Len(l) : l[i] = l[j] => i = j

\* C14: the emails of a returned record, whichever tier built it, hold no address
\* twice and at most 5 addresses.
C14_EmailsDistinctAtMostFive ==
    (WhoisSucceeded /\ whois_ret.data.emails.t = "list") =>
       /\ NoRepeats(whois_ret.data.emails.v)
       /\ Len(whois_ret.data.emails.v) <= MaxEmails

\* C14's case: the RDAP tier returned a record with six addresses, one of them
\* twice.
C14_RdapEmailsRepeated ==
    /\ pc = "done"
    /\ WhoisSucceeded
    /\ whois_ret.tier = 4
    /\ whois_ret.data.emails.t = "list"
    /\ Len(whois_ret.data.emails.v) > MaxEmails
    /\ ~NoRepeats(whois_ret.data.emails.v)

\* C15: the name_servers of a returned record, whichever tier built it, hold
\* lower-case names only and no name twice; and a text with the same name server on
\* two lines gives one entry.
C15_NameServersLowerDistinct ==
    (WhoisSucceeded /\ whois_ret.data.name_servers.t = "list") =>
       LET ns == whois_ret.data.name_servers.v
       IN  /\ \A i \in 1..Len(ns) : ns[i].v = Lower(ns[i].v)
           /\ NoRepeats(ns)
           /\ (whois_ret.tier \in {2, 3}
                 /\ Occurrences(Lower(whois_ret.data.raw_text.v), <<"n","a","m","e"," ","s","e","r","v","e","r",":"," ","n","1",".","x",".","c","c">>)
                      # {}) => ns = <<Str(<<"n","1",".","x",".","c","c">>)>>

\* C15's case: the library tier returned a record with the same name twice.
C15_LibraryNameServersRepeated ==
    /\ pc = "done"
    /\ WhoisSucceeded
    /\ whois_ret.tier = 1
    /\ whois_ret.data.name_servers.t = "list"
    /\ ~NoRepeats(whois_ret.data.name_servers.v)

\* Tier 2 returned a record built from the response of the registry's server.
Tier2Accepted == pc = "whois_done" /\ WhoisSucceeded /\ whois_ret.tier = 2

\* Tier 2 asked the registry's server and went on to tier 3: raw_text is the
\* response it did not use.
Tier2Rejected == pc = "tier3" /\ Truthy(whois_server)

\* The text has at least n characters and, in any case, none of the seven
\* indicators of a negative answer.
LongAndPositive(text, n) ==
    LET indicators ==
            { <<"n","o"," ","m","a","t","c","h">>, <<"n","o","t"," ","f","o","u","n","d">>, <<"n","o"," ","d","a","t","a"," ","f","o","u","n","d">>, <<"n","o"," ","e","n","t","r","i","e","s"," ","f","o","u","n","d">>,
              <<"d","o","m","a","i","n"," ","n","o","t"," ","f","o","u","n","d">>, <<"n","o"," ","i","n","f","o","r","m","a","t","i","o","n">>, <<"s","t","a","t","u","s",":"," ","f","r","e","e">> }
    IN  /\ text.t = "str"
        /\ Len(text.v) >= n
        /\ \A indicator \in indicators : ~Contains(Lower(text.v), indicator)

\* C16 as stated: tier 2 uses the response of the registry's server exactly when
\* the text has at least 100 characters and none of the seven indicators.
C16_AcceptedFrom100 ==
    /\ Tier2Accepted => LongAndPositive(whois_ret.data.raw_text, 100)
    /\ Tier2Rejected => ~LongAndPositive(raw_text, 100)

\* C16: tier 2 uses the response of the registry's server exactly when the text
\* has more than 100 characters, that is at least 101, and none of the seven
\* indicators.
C16_AcceptedFrom101 ==
    /\ Tier2Accepted => LongAndPositive(whois_ret.data.raw_text, 101)
    /\ Tier2Rejected => ~LongAndPositive(raw_text, 101)

\* C16's case: tier 2 was given a text of exactly 100 characters without any
\* indicator and went on to tier 3.
C16_HundredCharactersRejected ==
    /\ Tier2Rejected
    /\ LongAndPositive(raw_text, 100)
    /\ Len(raw_text.v) = 100

\* C17: tier 3 uses the response of the referred server exactly when tier 2 would
\* use the same text: a text tier 3 returned a record from passes tier 2's test, a
\* text tier 3 did not use fails it.
C17_ReferredAsDirect ==
    /\ (pc = "whois_done" /\ WhoisSucceeded /\ whois_ret.tier = 3) =>
          DirectAccepted(whois_ret.data.raw_text)
    /\ (pc = "tier4" /\ Truthy(real_server)) => ~DirectAccepted(raw_text)

\* C17's case: tier 3 returned a record built from a text that says
\* "status: free", which tier 2 takes for a negative answer.
C17_ReferredTookStatusFree ==
    /\ pc = "done"
    /\ WhoisSucceeded
    /\ whois_ret.tier = 3
    /\ Contains(Lower(whois_ret.data.raw_text.v), <<"s","t","a","t","u","s",":"," ","f","r","e","e">>)
    /\ ~DirectAccepted(whois_ret.data.raw_text)

\* C18: once tiers 1 and 2 are past, whois.iana.org has been asked for the last
\* label of the domain; the domain goes to a referred server exactly when a line
\* `whois: <hostname>` of IANA's response names a host other than the registry's
\* server, and to that host; otherwise RDAP follows with no other legacy query.
C18_ReferredOnWhoisLine ==
    LET labels == Split(domain, ".")
        value(line) == Strip(Drop(Strip(line), 6))
        isReferral(line) == StartsWith(Lower(Strip(line)), <<"w","h","o","i","s",":">>) /\ value(line) # <<>>
        hostOf(line) ==
            SubSeq(value(line), 1,
                   RunLen(value(line), {value(line)[k] : k \in 1..Len(value(line))} \ Whitespace))
        hosts(text) ==
            LET lines == Split(text, "\n")
            IN  {Str(hostOf(lines[i])) : i \in {j \in 1..Len(lines) : isReferral(lines[j])}}
        referrals == (IF iana_raw.t = "str" THEN hosts(iana_raw.v) ELSE {}) \ {whois_server}
    IN  /\ pc \in {"tier3_referred", "tier4"} =>
              \E i \in 1..Len(net) :
                 net[i] = Request("socket", IANA_SERVER, labels[Len(labels)])
        /\ pc = "tier3_referred" => real_server \in referrals
        /\ (pc = "tier4" /\ Truthy(real_server)) =>
              \E i \in 1..Len(net) : net[i] = Request("socket", real_server.v, domain)
        /\ (pc = "tier4" /\ ~Truthy(real_server)) =>
              /\ referrals = {}
              /\ \A i \in 1..Len(net) :
                    (net[i].kind = "socket" /\ net[i].q = domain) =>
                       Str(net[i].to) = whois_server

\* C18's case: IANA's response has a `whois:` line without a hostname and the
\* domain is about to be sent to a host named after the next line's label.
C18_ReferredToNextLabel ==
    /\ pc = "tier3_referred"
    /\ iana_raw = Str(<<"d","o","m","a","i","n",":"," ","X","\n","w","h","o","i","s",":","\n","s","t","a","t","u","s",":"," ","A","C","T","I","V","E">>)
    /\ real_server = Str(<<"s","t","a","t","u","s",":">>)

\* C19: tier 4 returns a record exactly when the RDAP client got a JSON body:
\* whatever the body, an empty object too, the resolution succeeds with a record
\* of tier 4 and does not end with its failure.
C19_AnyBodyAccepted ==
    /\ rdap_outcome = "body" => (WhoisSucceeded /\ whois_ret.tier = 4)
    /\ (WhoisSucceeded /\ whois_ret.tier = 4) => rdap_outcome = "body"

\* C19's case: an RDAP endpoint answered with the empty object and the WHOIS
\* query ended with 404.
C19_EmptyObjectUnavailable ==
    /\ pc = "done"
    /\ endpoint = "whois"
    /\ rdap_outcome = "body"
    /\ rdap_data = Dict(<<>>)
    /\ WhoisFailed
    /\ response.status = 404

\* The bases of the RDAP GETs made so far, in the order they were made.
RdapAsked ==
    LET gets == SelectSeq(net, LAMBDA r : r.kind = "rdap")
    IN  [i \in 1..Len(gets) |-> gets[i].to]

\* The part of C20 about the candidates: the GETs ask for the domain and go
\* through the TLD's base, when RDAP_SERVERS has one, and then
\* https://rdap.org/domain/; after a failure of any kind the next candidate is
\* asked, or the client hands back None when there is none left; after a body no
\* candidate is asked any more; and the resolution raises only after a body.
C20_CandidatesInOrder ==
    LET labels == Split(domain, ".")
        tld == Lower(labels[Len(labels)])
        candidates == (IF tld \in DOMAIN RDAP_SERVERS THEN <<RDAP_SERVERS[tld]>> ELSE <<>>)
                      \o <<"https://rdap.org/domain/">>
    IN  /\ Len(RdapAsked) <= Len(candidates)
        /\ RdapAsked = SubSeq(candidates, 1, Len(RdapAsked))
        /\ \A i \in 1..Len(net) : net[i].kind = "rdap" => net[i].q = domain
        /\ rdap_outcome \in RdapFailures =>
              /\ pc = "tier4" <=> Len(RdapAsked) < Len(candidates)
              /\ pc = "tier4" => rdap_i = Len(RdapAsked) + 1
              /\ pc # "tier4" => (rdap_data = NoneV /\ WhoisFailed)
        /\ rdap_outcome = "body" => (pc # "tier4" /\ rdap_data \in RdapBodies)
        /\ whois_ret.kind = "raise" => rdap_outcome \notin RdapFailures

\* C20 as stated: the candidates are tried in order, a failure skips to the next,
\* the first body is handed back, no error escapes, and the client hands back
\* None exactly when every candidate failed.
C20_NoneIffAllFailed ==
    /\ C20_CandidatesInOrder
    /\ (pc # "tier4" /\ rdap_outcome # "none") =>
          (rdap_data = NoneV <=> rdap_outcome \in RdapFailures)

\* C20: the candidates are tried in order, a failure skips to the next, the first
\* body is handed back as it was parsed, no error escapes, and the client hands
\* back None when every candidate failed; what is not None comes from a body.
C20_NoneIfAllFailed ==
    /\ C20_CandidatesInOrder
    /\ (pc # "tier4" /\ rdap_outcome \in RdapFailures) => rdap_data = NoneV
    /\ rdap_data # NoneV => rdap_outcome = "body"

\* C20's case: the first of two candidates answered with the body null; the
\* client handed back None and the second candidate was not asked.
C20_NullBodyHandedBack ==
    /\ pc = "done"
    /\ rdap_outcome = "body"
    /\ rdap_data = NoneV
    /\ Len(rdap_urls(domain)) = 2
    /\ Len(RdapAsked) = 1

(***************************************************************************)
(* The legacy WHOIS client: _query_whois_socket, step by step              *)
(***************************************************************************)

\* A call is handed more data only while it holds fewer bytes than this.
MaxBytes == 2

\* The queries sent: a domain, a TLD.
SocketQueries == { <<"a",".","c","o","m">>, <<"c","o","m">> }

\* What one recv may hand over.  A byte is written as its ASCII character or as
\* its two hexadecimal digits: C3 A9 is the UTF-8 form of U+00E9, E9 its Latin-1
\* form.
Chunks == { <<"a", "\n">>, <<"C3">>, <<"A9">>, <<"E9">> }

AsciiBytes == {"a", "\n"}

\* response.decode('utf-8'): the text and whether UnicodeDecodeError was raised.
RECURSIVE DecodeUtf8(_)
DecodeUtf8(bytes) ==
    IF bytes = <<>> THEN [ok |-> TRUE, text |-> <<>>]
    ELSE IF Head(bytes) \in AsciiBytes
         THEN LET rest == DecodeUtf8(Tail(bytes))
              IN  [ok |-> rest.ok, text |-> <<Head(bytes)>> \o rest.text]
    ELSE IF Len(bytes) >= 2 /\ bytes[1] = "C3" /\ bytes[2] = "A9"
         THEN LET rest == DecodeUtf8(Tail(Tail(bytes)))
              IN  [ok |-> rest.ok, text |-> <<"U+00E9">> \o rest.text]
    ELSE [ok |-> FALSE, text |-> <<>>]

\* response.decode('latin-1'): every byte is a character.
DecodeLatin1(bytes) ==
    [i \in 1..Len(bytes) |->
        IF bytes[i] \in AsciiBytes THEN bytes[i] ELSE "U+00" \o bytes[i]]

\* The loop over the encodings: utf-8, then latin-1, which takes any bytes, so the
\* encodings after it and the last line are not reached.
DecodeResponse(bytes) ==
    IF DecodeUtf8(bytes).ok THEN Str(DecodeUtf8(bytes).text) ELSE Str(DecodeLatin1(bytes))

\* `except Exception: return None`: nothing closes the socket here.  The object
\* is unreferenced once the call is over: an interpreter that counts references
\* finalizes it at once, another one at some later collection.
SocketFails ==
    /\ sock_ret' = NoneV
    /\ sock_pc' = "returned"
    /\ sock_open' \in {sock_open, FALSE}

\* socket.socket(...) and settimeout.
SocketCreate ==
    /\ sock_pc = "idle"
    /\ \E query \in SocketQueries :
          /\ sock_sent' = query \o <<"\r", "\n">>
          /\ \/ sock_pc' = "connect" /\ sock_open' = TRUE /\ UNCHANGED sock_ret
             \/ SocketFails
    /\ UNCHANGED <<sockRest, sock_response>>

\* sock.connect((server, port)): done, or refused, unresolved or timed out.
SocketConnect ==
    /\ sock_pc = "connect"
    /\ \/ sock_pc' = "send" /\ UNCHANGED <<sock_open, sock_ret>>
       \/ SocketFails
    /\ UNCHANGED <<sockRest, sock_sent, sock_response>>

\* sock.send(query.encode('utf-8'))
SocketSend ==
    /\ sock_pc = "send"
    /\ \/ sock_pc' = "recv" /\ UNCHANGED <<sock_open, sock_ret>>
       \/ SocketFails
    /\ UNCHANGED <<sockRest, sock_sent, sock_response>>

\* One round of the receive loop: data, the end of the stream, socket.timeout
\* (both leave the loop), or another error.
SocketRecv ==
    /\ sock_pc = "recv"
    /\ \/ \E data \in Chunks :
            /\ Len(sock_response) < MaxBytes
            /\ sock_response' = sock_response \o data
            /\ UNCHANGED <<sock_pc, sock_open, sock_ret>>
       \/ \E left \in {"end", "timeout"} :
            sock_pc' = "close" /\ UNCHANGED <<sock_open, sock_ret, sock_response>>
       \/ SocketFails /\ UNCHANGED sock_response
    /\ UNCHANGED <<sockRest, sock_sent>>

\* sock.close() after the loop.
SocketClose ==
    /\ sock_pc = "close"
    /\ sock_open' = FALSE
    /\ sock_pc' = "decode"
    /\ UNCHANGED <<sockRest, sock_sent, sock_response, sock_ret>>

\* The text is handed back.
SocketDecode ==
    /\ sock_pc = "decode"
    /\ sock_ret' = DecodeResponse(sock_response)
    /\ sock_pc' = "returned"
    /\ UNCHANGED <<sockRest, sock_open, sock_sent, sock_response>>

NextSocket ==
    \/ SocketCreate
    \/ SocketConnect
    \/ SocketSend
    \/ SocketRecv
    \/ SocketClose
    \/ SocketDecode

SpecSocket == Init /\ [][NextSocket]_vars

(***************************************************************************)
(* The parsers on their own: a call on a text, a call on an RDAP object     *)
(***************************************************************************)

\* The most lines of a text.
MaxLines == 3

\* The lines texts are made of: labels in two spellings, comment lines, a line
\* with blanks around it, a label without a value.
TextLines ==
    { <<"R","e","g","i","s","t","r","a","r",":"," ","A">>, <<"r","e","g","i","s","t","r","a","r",":"," ","B">>, <<"%"," ","R","e","g","i","s","t","r","a","r",":"," ","C">>, <<"#","c","r","e","a","t","e","d",":"," ","1">>,
      <<" ","C","r","e","a","t","e","d"," ","O","n",":"," ","2"," ">>, <<"R","e","g","i","s","t","r","a","n","t",":">>, <<"o","r","g",":"," ","O">>, <<"p","a","i","d","-","t","i","l","l",":"," ","3">>,
      <<"U","p","d","a","t","e","d"," ","D","a","t","e",":"," ","4">> }

\* '\n'.join(lines)
RECURSIVE JoinLines(_)
JoinLines(lines) ==
    IF lines = <<>> THEN <<>>
    ELSE IF Len(lines) = 1 THEN lines[1]
    ELSE lines[1] \o <<"\n">> \o JoinLines(Tail(lines))

ParseTexts == {JoinLines(l) : l \in UNION {[1..n -> TextLines] : n \in 0..MaxLines}}

\* _parse_whois_raw(raw_text, domain) on a text.
ParseText ==
    /\ parse_input = NoneV
    /\ \E text \in ParseTexts :
          /\ parse_input' = Str(text)
          /\ \E emails \in EmailOrders(text) :
                parse_result' = _parse_whois_raw(text, <<"a",".","c","o","m">>, emails)
    /\ UNCHANGED parseRest

\* The most events of an RDAP object.
MaxEvents == 3

\* An element of the events array.
Event(action, date) == Dict([eventAction |-> Str(action), eventDate |-> Str(date)])

\* The events objects are made of: two dates for each kind, and an event without
\* eventDate.
RdapEvents ==
    { Event(<<"r","e","g","i","s","t","r","a","t","i","o","n">>, <<"2","0","0","1">>), Event(<<"r","e","g","i","s","t","r","a","t","i","o","n">>, <<"2","0","0","2">>),
      Event(<<"e","x","p","i","r","a","t","i","o","n">>, <<"2","0","0","1">>), Event(<<"e","x","p","i","r","a","t","i","o","n">>, <<"2","0","0","2">>),
      Event(<<"l","a","s","t"," ","c","h","a","n","g","e","d">>, <<"2","0","0","1">>),
      Event(<<"l","a","s","t"," ","u","p","d","a","t","e"," ","o","f"," ","R","D","A","P"," ","d","a","t","a","b","a","s","e">>, <<"2","0","0","2">>),
      Dict([eventAction |-> Str(<<"l","a","s","t"," ","c","h","a","n","g","e","d">>)]) }

\* _parse_rdap_response(data, domain) on an object with an events array.
ParseRdap ==
    /\ parse_input = NoneV
    /\ \E n \in 0..MaxEvents :
          \E events \in [1..n -> RdapEvents] :
             LET data == Dict([events |-> List(events)])
             IN  /\ parse_input' = data
                 /\ parse_result' = _parse_rdap_response(data, <<"a",".","c","o","m">>)
    /\ UNCHANGED parseRest

NextParse ==
    \/ ParseText
    \/ ParseRdap

SpecParse == Init /\ [][NextParse]_vars

\* C21: when a call of _query_whois_socket is over, with a text or with None, the
\* socket it created is closed.
C21_SocketClosedOnReturn == sock_pc = "returned" => ~sock_open

\* C21's case: connect failed, the call handed back None and the socket is open.
C21_OpenAfterFailure ==
    /\ sock_pc = "returned"
    /\ sock_ret = NoneV
    /\ sock_response = <<>>
    /\ sock_open

\* C22: each of registrar, registrant and the three dates is the value of the
\* first line of the text, comment lines and blank lines left out, that one of the
\* field's patterns matches, taken with the first pattern that matches that line,
\* and None when there is no such line; later matching lines change nothing.
C22_FirstLineWins ==
    parse_input.t = "str" =>
       LET split == Split(parse_input.v, "\n")
           lines == [i \in 1..Len(split) |-> Strip(split[i])]
           live == {i \in 1..Len(lines) :
                       lines[i] # <<>> /\ lines[i][1] \notin {"%", "#"}}
           hits(pats, i) == {k \in 1..Len(pats) : MatchEnd(pats[k], lines[i]) >= 0}
           matching(pats) == {i \in live : hits(pats, i) # {}}
           expected(pats) ==
               IF matching(pats) = {} THEN NoneV
               ELSE LET i == SetMin(matching(pats))
                    IN  Str(Group1(pats[SetMin(hits(pats, i))], lines[i]))
       IN  /\ parse_result.registrar = expected(registrar_patterns)
           /\ parse_result.registrant = expected(registrant_patterns)
           /\ parse_result.creation_date = expected(creation_date_patterns)
           /\ parse_result.expiration_date = expected(expiration_date_patterns)
           /\ parse_result.updated_date = expected(updated_date_patterns)

\* C22's case: the text has `% Registrar: C`, `registrar: B` and `Registrar: A`
\* in this order and the registrar is B.
C22_Witness ==
    /\ parse_input = Str(<<"%"," ","R","e","g","i","s","t","r","a","r",":"," ","C","\n","r","e","g","i","s","t","r","a","r",":"," ","B","\n","R","e","g","i","s","t","r","a","r",":"," ","A">>)
    /\ parse_result.registrar = Str(<<"B">>)

\* C23: each date of the RDAP parser is the eventDate of the first event of the
\* array whose eventAction is one of the field's and which has a date; later
\* events of that kind change nothing.  Without such an event the field is empty.
C23_FirstEventWins ==
    parse_input.t = "dict" =>
       LET events == parse_input.v.events.v
           dated(actions) ==
               {i \in 1..Len(events) :
                   /\ events[i].v.eventAction.v \in actions
                   /\ "eventDate" \in DOMAIN events[i].v}
           first(actions, date) ==
               IF dated(actions) = {} THEN ~Truthy(date)
               ELSE date = events[SetMin(dated(actions))].v.eventDate
       IN  /\ first({<<"r","e","g","i","s","t","r","a","t","i","o","n">>}, parse_result.creation_date)
           /\ first({<<"e","x","p","i","r","a","t","i","o","n">>}, parse_result.expiration_date)
           /\ first({<<"l","a","s","t"," ","c","h","a","n","g","e","d">>, <<"l","a","s","t"," ","u","p","d","a","t","e"," ","o","f"," ","R","D","A","P"," ","d","a","t","a","b","a","s","e">>},
                    parse_result.updated_date)

\* C23's case: two registration events, of 2001 and then of 2002, and the creation
\* date is 2002.
C23_LastRegistrationWins ==
    /\ parse_input =
          Dict([events |-> List(<< Event(<<"r","e","g","i","s","t","r","a","t","i","o","n">>, <<"2","0","0","1">>),
                                   Event(<<"r","e","g","i","s","t","r","a","t","i","o","n">>, <<"2","0","0","2">>) >>)])
    /\ parse_result.creation_date = Str(<<"2","0","0","2">>)

\* A Python bool.
Bool(b) == [t |-> "bool", v |-> b]

\* The usernames and e-mail addresses requests carry.
Usernames == { ADMIN_USERNAME, <<"b","o","b">> }

Emails == { ADMIN_EMAIL, <<"b","o","b","@">>, <<"e","v","e","@">> }

\* The primary key SQLite gives a new row: one more than the largest in the table.
NewId(table) == IF DOMAIN table = {} THEN 1 ELSE SetMax(DOMAIN table) + 1

\* The table with one row more, with one row less.
WithRow(table, id, row) == [i \in DOMAIN table \cup {id} |-> IF i = id THEN row ELSE table[i]]

WithoutRows(table, ids) == [i \in DOMAIN table \ ids |-> table[i]]

\* get_current_admin_user for the bearer of a token of user `actor`: the status it
\* raises, 200 when it raises none.
get_current_admin_user(actor) ==
    IF actor \notin DOMAIN users \/ ~users[actor].is_active THEN 401
    ELSE IF ~users[actor].is_admin THEN 403
    ELSE 200

\* What is kept of a request to the user-management routes and of its answer.
AdminResponse(op, actor, user_id, is_active, is_admin, status) ==
    [op |-> op, actor |-> actor, user_id |-> user_id, is_active |-> is_active,
     is_admin |-> is_admin, status |-> status]

\* The bodies of PUT /users/{user_id} (schema UserUpdate): each field is optional.
UserUpdates ==
    [email : {NoneV} \cup {Str(e) : e \in Emails},
     password : {NoneV, Str(<<"n","e","w">>)},
     is_active : {NoneV, Bool(TRUE), Bool(FALSE)},
     is_admin : {NoneV, Bool(TRUE), Bool(FALSE)}]

\* No user is protected.
NeverProtected(user) == FALSE

\* is_protected_user of update_user, and the test of delete_user.
is_protected_user(user) == user.username = ADMIN_USERNAME

\* POST /users: a request whose dependencies or checks raise changes no table.
create_user(actor, username, email, is_admin) ==
       LET auth == get_current_admin_user(actor)
           taken == \/ \E i \in DOMAIN users : users[i].username = username
                    \/ \E i \in DOMAIN users : users[i].email = email
           status == IF auth # 200 THEN auth ELSE IF taken THEN 400 ELSE 200
           id == NewId(users)
       IN  /\ status = 200 => id \in UserIds
           /\ users' = IF status = 200
                       THEN WithRow(users, id,
                                    User(username, email, get_password_hash(<<"p","w">>), TRUE, is_admin))
                       ELSE users
           /\ admin_response' = AdminResponse("create", actor, 0, NoneV, Bool(is_admin), status)
           /\ UNCHANGED <<api_keys, adminRest>>

\* The row update_user commits, for a request that raised nothing.
UpdatedUser(user, user_data) ==
    [user EXCEPT
       !.email = IF user_data.email # NoneV THEN user_data.email.v ELSE @,
       !.hashed_password = IF user_data.password # NoneV
                           THEN get_password_hash(user_data.password.v) ELSE @,
       !.is_active = IF user_data.is_active # NoneV THEN user_data.is_active.v ELSE @,
       !.is_admin = IF user_data.is_admin # NoneV THEN user_data.is_admin.v ELSE @]

\* The status update_user raises for a user that exists, 200 when it raises none.
UpdateStatus(actor, user_id, user_data) ==
    LET user == users[user_id]
        email_taken == /\ user_data.email # NoneV
                       /\ \E i \in DOMAIN users \ {user_id} : users[i].email = user_data.email.v
    IN  IF email_taken THEN 400
        ELSE IF /\ user_data.is_active # NoneV
                /\ is_protected_user(user) /\ ~user_data.is_active.v THEN 400
        ELSE IF /\ user_data.is_admin # NoneV
                /\ user_id = actor /\ ~user_data.is_admin.v THEN 400
        ELSE IF /\ user_data.is_admin # NoneV
                /\ is_protected_user(user) /\ ~user_data.is_admin.v THEN 400
        ELSE 200

\* PUT /users/{user_id}: the changes are committed at the end, so that a request
\* that raises leaves the row as it was.
update_user(actor, user_id, user_data) ==
    LET auth == get_current_admin_user(actor)
        status == IF auth # 200 THEN auth
                  ELSE IF user_id \notin DOMAIN users THEN 404
                  ELSE UpdateStatus(actor, user_id, user_data)
    IN  /\ users' = IF status = 200
                    THEN [users EXCEPT ![user_id] = UpdatedUser(@, user_data)]
                    ELSE users
        /\ admin_response' = AdminResponse("update", actor, user_id, user_data.is_active,
                                           user_data.is_admin, status)
        /\ UNCHANGED <<api_keys, adminRest>>

\* DELETE /users/{user_id}: the user's keys go with the user.
delete_user ==
    \E actor \in UserIds, user_id \in UserIds :
       LET auth == get_current_admin_user(actor)
           status == IF auth # 200 THEN auth
                     ELSE IF user_id = actor THEN 400
                     ELSE IF user_id \notin DOMAIN users THEN 404
                     ELSE IF is_protected_user(users[user_id]) THEN 400
                     ELSE 200
       IN  /\ users' = IF status = 200 THEN WithoutRows(users, {user_id}) ELSE users
           /\ api_keys' = IF status = 200
                          THEN WithoutRows(api_keys, {k \in DOMAIN api_keys :
                                                        api_keys[k].user_id = user_id})
                          ELSE api_keys
           /\ admin_response' = AdminResponse("delete", actor, user_id, NoneV, NoneV, status)
           /\ UNCHANGED adminRest

\* An administrator's creation of a user, with any body.
CreateUser ==
    \E actor \in UserIds, username \in Usernames, email \in Emails, is_admin \in BOOLEAN :
       create_user(actor, username, email, is_admin)

\* An administrator's update of a user, with any body.
UpdateUser ==
    \E actor \in UserIds, user_id \in UserIds, user_data \in UserUpdates :
       update_user(actor, user_id, user_data)

NextAdmin ==
    \/ CreateUser
    \/ UpdateUser
    \/ delete_user

SpecAdmin == Init /\ [][NextAdmin]_vars

\* The user named 'admin' is there, active and an administrator.
AdminIntact ==
    \E i \in DOMAIN users :
       /\ users[i].username = ADMIN_USERNAME
       /\ users[i].is_active
       /\ users[i].is_admin

\* A request by an administrator to delete the user named 'admin', to disable it or
\* to take its admin flag away.
AgainstAdmin(r) ==
    /\ r.user_id \in DOMAIN users
    /\ users[r.user_id].username = ADMIN_USERNAME
    /\ get_current_admin_user(r.actor) = 200
    /\ \/ r.op = "delete"
       \/ r.op = "update" /\ (r.is_active = Bool(FALSE) \/ r.is_admin = Bool(FALSE))

\* C24: after any user-management requests, the user named 'admin' is there, active
\* and an administrator; a request by an administrator to delete it, to disable it
\* or to take its admin flag away is answered 400, and a request answered 400
\* changes no row.
C24_AdminProtected ==
    /\ []AdminIntact
    /\ [](AgainstAdmin(admin_response) => admin_response.status = 400)
    /\ [][admin_response'.status = 400 => users' = users /\ api_keys' = api_keys]_vars

\* Another administrator asked to disable the user named 'admin' or to take its admin
\* flag away, and was answered 400.
C24_RejectedByOtherAdmin ==
    /\ AgainstAdmin(admin_response)
    /\ admin_response.op = "update"
    /\ admin_response.actor # admin_response.user_id
    /\ admin_response.status = 400
    /\ AdminIntact

\* settings.DEFAULT_DAILY_LIMIT
DEFAULT_DAILY_LIMIT == 1000

\* A row of table api_keys: expires_at is None or a day, total_requests starts at 0.
APIKey(user_id, daily_limit, expires_at) ==
    [user_id |-> user_id, is_active |-> TRUE, daily_limit |-> daily_limit,
     expires_at |-> expires_at, total_requests |-> 0]

\* The keys of a user.
KeysOf(user_id) == {k \in DOMAIN api_keys : api_keys[k].user_id = user_id}

\* get_current_active_user for the bearer of a token of user `actor`: whether it
\* hands a user back (it raises 401 otherwise).
get_current_active_user(actor) == actor \in DOMAIN users /\ users[actor].is_active

\* The count of create_api_key lets the request go on.
BelowKeyLimit(user_id) == ~(Cardinality(KeysOf(user_id)) >= 5)

\* POST /api-keys, first step: the dependency loads current_user. A request that is
\* refused there changes nothing.
KeyAuth(c) ==
    /\ key_calls[c].pc = "idle"
    /\ \E actor \in UserIds :
          /\ get_current_active_user(actor)
          /\ key_calls' = [key_calls EXCEPT ![c] =
                             [pc |-> IF users[actor].is_admin THEN "add" ELSE "count",
                              user_id |-> actor, is_admin |-> users[actor].is_admin]]
    /\ UNCHANGED <<users, api_keys, admin_response, keyRest>>

\* POST /api-keys, second step for a user who was no administrator when loaded: the
\* count of the user's keys; 400 at 5 and more.
KeyCount(c) ==
    /\ key_calls[c].pc = "count"
    /\ key_calls' = [key_calls EXCEPT ![c] =
                       IF BelowKeyLimit(key_calls[c].user_id)
                       THEN [@ EXCEPT !.pc = "add"] ELSE IdleKeyCall]
    /\ UNCHANGED <<users, api_keys, admin_response, keyRest>>

\* POST /api-keys, last step: the row is added and committed.
KeyAdd(c, key_data) ==
    /\ key_calls[c].pc = "add"
    /\ NewId(api_keys) <= MaxKeys
    /\ LET daily_limit == IF ~key_calls[c].is_admin
                          THEN IF key_data.daily_limit <= DEFAULT_DAILY_LIMIT
                               THEN key_data.daily_limit ELSE DEFAULT_DAILY_LIMIT
                          ELSE key_data.daily_limit
       IN  api_keys' = WithRow(api_keys, NewId(api_keys),
                               APIKey(key_calls[c].user_id, daily_limit, key_data.expires_at))
    /\ key_calls' = [key_calls EXCEPT ![c] = IdleKeyCall]
    /\ UNCHANGED <<users, admin_response, keyRest>>

\* DELETE /api-keys/{key_id}: a user deletes a key of their own.
delete_api_key ==
    \E actor \in UserIds, key_id \in DOMAIN api_keys :
       /\ get_current_active_user(actor)
       /\ api_keys[key_id].user_id = actor
       /\ api_keys' = WithoutRows(api_keys, {key_id})
       /\ UNCHANGED <<users, admin_response, key_calls, keyRest>>

\* An administrator sets or clears the admin flag of a user.
SetAdminFlag ==
    \E actor \in UserIds, user_id \in UserIds, is_admin \in BOOLEAN :
       update_user(actor, user_id,
                   [email |-> NoneV, password |-> NoneV, is_active |-> NoneV,
                    is_admin |-> Bool(is_admin)])

\* The default administrator creates the second user.
AddUser ==
    \E is_admin \in BOOLEAN : create_user(1, <<"b","o","b">>, <<"b","o","b","@">>, is_admin)

\* A key without an end date is created.
CreateKey ==
    \E c \in KeyCalls :
       \/ KeyAuth(c)
       \/ KeyCount(c)
       \/ KeyAdd(c, [daily_limit |-> 2, expires_at |-> NoneV])

NextKeys ==
    \/ AddUser
    \/ SetAdminFlag
    \/ CreateKey
    \/ delete_api_key

SpecKeys == Init /\ [][NextKeys]_vars

\* C25: a user who is no administrator has at most 5 keys.
C25_AtMostFiveKeys ==
    \A u \in DOMAIN users : ~users[u].is_admin => Cardinality(KeysOf(u)) <= 5

\* A user who never was an administrator (the last user-management request is the
\* one that created them) has 6 keys: two requests counted 4 keys before either
\* added its own.
C25_SixKeysByRace ==
    \E u \in DOMAIN users :
       /\ ~users[u].is_admin
       /\ Cardinality(KeysOf(u)) = 6
       /\ admin_response.op = "create"
       /\ admin_response.status = 200
       /\ admin_response.is_admin = Bool(FALSE)

\* C26: when a call is over, the status code of its usage_logs row is the HTTP status
\* its caller got.
C26_LogHasReturnedStatus ==
    pc = "done" => usage_logs[Len(usage_logs)].status_code = response.status

\* A DNS call answered with 404 whose usage_logs row says 500.
C26_NotFoundLoggedAs500 ==
    /\ pc = "done"
    /\ endpoint = "dns"
    /\ response.status = 404
    /\ usage_logs[Len(usage_logs)].status_code = 500

\* get_api_key without the test of the user.
get_api_key_any_user(key) ==
    IF key \notin DOMAIN api_keys THEN NoneV
    ELSE LET api_key_obj == api_keys[key]
         IN  IF ~api_key_obj.is_active THEN NoneV
             ELSE IF api_key_obj.expires_at # NoneV /\ api_key_obj.expires_at.v < now
                  THEN NoneV
             ELSE Dict(api_key_obj)

\* get_api_key for a request bearing key `key` (0: no key, or a key that is in no
\* row): the row, or None.
get_api_key(key) ==
    IF key \notin DOMAIN api_keys THEN NoneV
    ELSE LET api_key_obj == api_keys[key]
         IN  IF ~api_key_obj.is_active THEN NoneV
             ELSE IF api_key_obj.expires_at # NoneV /\ api_key_obj.expires_at.v < now
                  THEN NoneV
             ELSE IF ~users[api_key_obj.user_id].is_active THEN NoneV
             ELSE Dict(api_key_obj)

\* The rows of table daily_usage for a key and a day: what the select of
\* check_rate_limit and of record_usage finds.
DailyRowsOf(key, date) ==
    {r \in DOMAIN daily_rows :
        daily_rows[r].api_key_id = key /\ daily_rows[r].date = date}

\* A request that is over: its status, and the exception when one escaped.
LookupDone(key, status, exc) ==
    [pc |-> "done", key |-> key, api_key |-> NoneV, daily |-> NoneV, pending |-> NoneV,
     status |-> status, exc |-> exc]

\* A lookup request, first step: get_api_key loads the key and its user into the
\* session; without a valid key require_api_key raises 401.
LookupAuth(c, key) ==
    /\ lookup_calls[c].pc \in {"idle", "done"}
    /\ LET api_key == get_api_key(key)
       IN  lookup_calls' = [lookup_calls EXCEPT ![c] =
                              IF api_key = NoneV THEN LookupDone(key, 401, "none")
                              ELSE [pc |-> "check", key |-> key, api_key |-> api_key,
                                    daily |-> NoneV, pending |-> NoneV, status |-> 0,
                                    exc |-> "none"]]
    /\ UNCHANGED <<daily_rows, log_rows, now, admitted, acctVars, acctRest>>

\* A lookup request, second step: check_rate_limit. scalar_one_or_none raises when
\* the select finds two rows; a row at the limit is answered 429; the row found
\* stays in the session.
LookupCheck(c) ==
    /\ lookup_calls[c].pc = "check"
    /\ LET call == lookup_calls[c]
           rows == DailyRowsOf(call.key, now)
           daily_usage_row == CHOOSE r \in rows : TRUE
       IN  IF Cardinality(rows) > 1
           THEN /\ lookup_calls' = [lookup_calls EXCEPT ![c] =
                                      LookupDone(call.key, 500, "MultipleResultsFound")]
                /\ UNCHANGED admitted
           ELSE IF /\ rows # {}
                   /\ daily_rows[daily_usage_row].request_count >= call.api_key.v.daily_limit
           THEN /\ lookup_calls' = [lookup_calls EXCEPT ![c] =
                                      LookupDone(call.key, 429, "none")]
                /\ UNCHANGED admitted
           ELSE /\ lookup_calls' = [lookup_calls EXCEPT ![c] =
                                      [@ EXCEPT !.pc = "handler",
                                                !.daily = IF rows = {} THEN NoneV
                                                          ELSE Dict([id |-> daily_usage_row,
                                                                     request_count |->
                                                                       daily_rows[daily_usage_row].request_count])]]
                /\ admitted' = [admitted EXCEPT ![<<call.key, now>>] = @ + 1]
    /\ UNCHANGED <<daily_rows, log_rows, now, acctVars, acctRest>>

\* A lookup request, third step: the handler ran and its finally block adds the
\* usage_logs row to the session and calls record_usage, up to its select.  A row
\* the session holds since check_rate_limit keeps the count it was loaded with; a
\* row found now is loaded now; two rows raise, and nothing is committed.
LookupRecord(c, code) ==
    /\ lookup_calls[c].pc = "handler"
    /\ LET call == lookup_calls[c]
           rows == DailyRowsOf(call.key, now)
           daily_usage_row == CHOOSE r \in rows : TRUE
           request_count ==
               IF call.daily # NoneV /\ call.daily.v.id = daily_usage_row
               THEN call.daily.v.request_count
               ELSE daily_rows[daily_usage_row].request_count
       IN  lookup_calls' = [lookup_calls EXCEPT ![c] =
              IF Cardinality(rows) > 1
              THEN LookupDone(call.key, 500, "MultipleResultsFound")
              ELSE [@ EXCEPT !.pc = "commit",
                             !.status = code,
                             !.pending =
                                IF rows = {}
                                THEN Dict([id |-> 0, date |-> now, request_count |-> 1])
                                ELSE Dict([id |-> daily_usage_row, date |-> now,
                                           request_count |-> request_count + 1])]]
    /\ UNCHANGED <<daily_rows, log_rows, now, admitted, acctVars, acctRest>>

\* A lookup request, last step: the commit of record_usage writes the daily_usage
\* row (new, or with the count the session computed), the key's total_requests as
\* the session computed it, and the usage_logs row.
LookupCommit(c) ==
    /\ lookup_calls[c].pc = "commit"
    /\ LET call == lookup_calls[c]
           p == call.pending.v
       IN  /\ daily_rows' =
                 IF p.id = 0
                 THEN WithRow(daily_rows, NewId(daily_rows),
                              [api_key_id |-> call.key, date |-> p.date,
                               request_count |-> p.request_count])
                 ELSE [daily_rows EXCEPT ![p.id].request_count = p.request_count]
           /\ api_keys' = [api_keys EXCEPT ![call.key].total_requests =
                                              call.api_key.v.total_requests + 1]
           /\ log_rows' = Append(log_rows, [api_key_id |-> call.key,
                                            status_code |-> call.status])
           /\ lookup_calls' = [lookup_calls EXCEPT ![c] =
                                 LookupDone(call.key, call.status, "none")]
    /\ UNCHANGED <<now, admitted, users, admin_response, key_calls, acctRest>>

\* The next day begins.
Tick ==
    /\ now < MaxDay
    /\ now' = now + 1
    /\ UNCHANGED <<lookup_calls, daily_rows, log_rows, admitted, acctVars, acctRest>>

\* The status codes a handler ends with: of a success and of a failure.
HandlerStatus == {200, 404}

\* A lookup request bearing the key of a row, or none.
Lookup ==
    \E c \in LookupCalls :
       \/ \E key \in {0} \cup DOMAIN api_keys : LookupAuth(c, key)
       \/ LookupCheck(c)
       \/ \E code \in HandlerStatus : LookupRecord(c, code)
       \/ LookupCommit(c)

\* The first key is created: with a daily limit of 2 and no end date.
FirstKey ==
    /\ DOMAIN api_keys = {}
    /\ \/ KeyAuth(1)
       \/ KeyCount(1)
       \/ KeyAdd(1, [daily_limit |-> 2, expires_at |-> NoneV])

NextUsage ==
    \/ FirstKey
    \/ Lookup
    \/ Tick

SpecUsage == Init /\ [][NextUsage]_vars

\* C27: for a key and a day, require_api_key admitted no more requests than the
\* key's daily_limit.
C27_AdmittedWithinLimit ==
    \A k \in DOMAIN api_keys, d \in Days : admitted[<<k, d>>] <= api_keys[k].daily_limit

\* Three requests were admitted on one day for a key whose daily_limit is 2.
C27_ThreeAdmitted ==
    \E k \in DOMAIN api_keys, d \in Days :
       /\ api_keys[k].daily_limit = 2
       /\ admitted[<<k, d>>] = 3

\* C28: table daily_usage has at most one row for a key and a day.
C28_OneRowPerKeyAndDay ==
    \A k \in DOMAIN api_keys, d \in Days : Cardinality(DailyRowsOf(k, d)) <= 1

\* Two rows for a key and a day, and a later request on which scalar_one_or_none
\* raised.
C28_LookupFoundTwoRows ==
    \E c \in LookupCalls :
       /\ lookup_calls[c].pc = "done"
       /\ lookup_calls[c].exc = "MultipleResultsFound"
       /\ Cardinality(DailyRowsOf(lookup_calls[c].key, now)) = 2

\* The sum of request_count over the daily_usage rows of a key.
RECURSIVE SumCounts(_)
SumCounts(rows) ==
    IF rows = {} THEN 0
    ELSE LET r == CHOOSE x \in rows : TRUE
         IN  daily_rows[r].request_count + SumCounts(rows \ {r})

\* The usage_logs rows of a key.
LogsOf(k) == {i \in DOMAIN log_rows : log_rows[i].api_key_id = k}

\* No lookup request is in progress.
NoLookupInProgress == \A c \in LookupCalls : lookup_calls[c].pc \in {"idle", "done"}

\* C29: when the lookup requests are over, a key's total_requests is the sum of
\* request_count over its daily_usage rows and the number of its usage_logs rows.
C29_TotalsAgree ==
    NoLookupInProgress =>
       \A k \in DOMAIN api_keys :
          /\ api_keys[k].total_requests =
                SumCounts({r \in DOMAIN daily_rows : daily_rows[r].api_key_id = k})
          /\ api_keys[k].total_requests = Cardinality(LogsOf(k))

\* Two requests are over, each wrote its usage_logs row, and total_requests is 1.
C29_TwoLogsOneCounted ==
    /\ NoLookupInProgress
    /\ \E k \in DOMAIN api_keys :
          /\ Cardinality(LogsOf(k)) = 2
          /\ api_keys[k].total_requests = 1

\* PUT /api-keys/{key_id} with is_active only: a user switches a key of their own
\* off or on.
update_api_key ==
    \E actor \in UserIds, key_id \in DOMAIN api_keys, is_active \in BOOLEAN :
       /\ get_current_active_user(actor)
       /\ api_keys[key_id].user_id = actor
       /\ api_keys' = [api_keys EXCEPT ![key_id].is_active = is_active]
       /\ UNCHANGED <<users, admin_response, key_calls, keyRest>>

\* An administrator disables a user or enables them again.
SetActive ==
    \E actor \in UserIds, user_id \in UserIds, is_active \in BOOLEAN :
       update_user(actor, user_id,
                   [email |-> NoneV, password |-> NoneV, is_active |-> Bool(is_active),
                    is_admin |-> NoneV])

\* The first key is created: without an end date, or with day 0 as its end.
FirstKeyWithEnd ==
    /\ DOMAIN api_keys = {}
    /\ \/ KeyAuth(1)
       \/ KeyCount(1)
       \/ \E expires_at \in {NoneV, Num(0)} :
             KeyAdd(1, [daily_limit |-> 2, expires_at |-> expires_at])

\* One lookup request at a time, bearing the key of a row, or none.
LookupInTurn ==
    \/ \E key \in {0} \cup DOMAIN api_keys : LookupAuth(1, key)
    \/ LookupCheck(1)
    \/ \E code \in HandlerStatus : LookupRecord(1, code)
    \/ LookupCommit(1)

NextAccess ==
    \/ AddUser
    \/ FirstKeyWithEnd
    \/ SetActive
    \/ update_api_key
    \/ Tick
    \/ LookupInTurn

SpecAccess == Init /\ [][NextAccess]_vars

\* The key of a request is in a row, active, not past its end, and of an active user.
KeyIsValid(key) ==
    /\ key \in DOMAIN api_keys
    /\ api_keys[key].is_active
    /\ api_keys[key].expires_at = NoneV \/ api_keys[key].expires_at.v >= now
    /\ users[api_keys[key].user_id].is_active

\* C30: a lookup request that begins goes on to the rate check only when its key is
\* valid at that moment; otherwise it is over at once with 401, and no table and no
\* count of admitted requests has changed.
C30_AdmittedOnlyWithValidKey ==
    [][\A c \in LookupCalls :
          (lookup_calls[c].pc \in {"idle", "done"} /\ lookup_calls'[c] # lookup_calls[c]) =>
             LET key == lookup_calls'[c].key
             IN  IF KeyIsValid(key)
                 THEN lookup_calls'[c].pc = "check"
                 ELSE /\ lookup_calls'[c] = LookupDone(key, 401, "none")
                      /\ UNCHANGED <<api_keys, daily_rows, log_rows, admitted>>]_vars

\* A key that was used before is refused with 401 now that its user is disabled.
C30_RefusedAfterDisable ==
    \E c \in LookupCalls :
       LET key == lookup_calls[c].key
       IN  /\ lookup_calls[c].pc = "done"
           /\ lookup_calls[c].status = 401
           /\ key \in DOMAIN api_keys
           /\ api_keys[key].total_requests >= 1
           /\ api_keys[key].is_active
           /\ ~users[api_keys[key].user_id].is_active

====
